---- MODULE Spec2Model ----
(***************************************************************************)
(* Behaviour model of the block decorators of lg-demo: the carousel        *)
(* (blocks/carousel), the in-place media toggle (blocks/image-cta-overlay),*)
(* the video modal (blocks/image-layered-text, blocks/text), the sticky   *)
(* award navigation (blocks/award), the row parsers of the carousel,       *)
(* image-cta-overlay and block-image blocks, and the fetch fallbacks of    *)
(* blocks/key-spec and blocks/product-details.  Every block owns its own   *)
(* variables; one specification per block drives that block's events.      *)
(***************************************************************************)
EXTENDS Integers, Sequences, FiniteSets, TLC

\* ------------------------------------------------------------------ bounds
MaxSlides == 4
MaxInstances == 2
MaxButtons == 2
MaxRows == 3
MaxSpecs == 3
MaxProducts == 2
MaxPath == 3

\* ------------------------------------------------------- program constants
SwipeThreshold == 50
MaxCards == 3
BlockImageColumns == 4
FixedTopPosition == 200
DesktopMinWidth == 900
Null == -1

\* ------------------------------------------------------------ input sets
CarouselBlocks == {"carouselA", "carouselB"}
Keys == {"ArrowLeft", "ArrowRight", "Escape", "Enter"}
TouchXs == {0, 50, 101}

VideoFlags == [image : BOOLEAN, video : BOOLEAN]
ModalBlocks == {"imageLayeredText", "blockImage"}
VideoIds == {"abc", "xyz"}
Widths == {600, 899, 900}
ScrollYs == {0, 100, 200, 450}
NaturalOffsets == {150, 200, 400, 650}
PagerWidths == {480, 481, 768, 769, 1024, 1025}

VARIABLES
    carousels,          \* one record per initCarousel closure, in creation order
    keydownListeners,   \* document 'keydown' listeners added by initCarousel
    intervals,          \* armed setInterval timers: records [id, owner]
    cards,              \* image-cta-overlay: the rendered cards of the block
    modals,             \* video modal of each decorated block
    modalListeners,     \* document 'keydown' listeners added by initVideoPlayer
    bodyOverflow,       \* document.body.style.overflow
    nav,                \* award nav element and setupScrollFixedPosition's closure
    win,                \* window: innerWidth, scroll position, page layout
    rows,               \* the authored rows of a block: each row a sequence of cells
    parsed,             \* what the block's parseDocumentRows returned (or that it threw)
    keySpec,            \* key-spec block: its decorate call, the fetch and the rendered rows
    product,            \* product-details block: its decorate call, the fetch and the view
    productBlock,       \* product-details block decorated repeatedly: its containers and their handlers
    mega,               \* header mega menus: hover listeners, hide timers, pointer, sticky header z-index
    pager,              \* award block: the pagination closure and what the pagination shows
    header              \* header nav: the mobile menu, the nav sections, the listeners and the focus

carouselVars == <<carousels, keydownListeners, intervals>>
mediaVars == <<cards>>
modalVars == <<modals, modalListeners, bodyOverflow>>
navVars == <<nav, win>>
parseVars == <<rows, parsed>>
fetchVars == <<keySpec, product>>
blockVars == <<productBlock, mega, pager, header>>
vars == <<carouselVars, mediaVars, modalVars, navVars, parseVars, fetchVars, blockVars>>
notCarousel == <<mediaVars, modalVars, navVars, parseVars, fetchVars, blockVars>>
notMedia == <<carouselVars, modalVars, navVars, parseVars, fetchVars, blockVars>>
notModal == <<carouselVars, mediaVars, navVars, parseVars, fetchVars, blockVars>>
notNav == <<carouselVars, mediaVars, modalVars, parseVars, fetchVars, blockVars>>
notParse == <<carouselVars, mediaVars, modalVars, navVars, fetchVars, blockVars>>
notKeySpec == <<carouselVars, mediaVars, modalVars, navVars, parseVars, product, blockVars>>
notProduct == <<carouselVars, mediaVars, modalVars, navVars, parseVars, keySpec, blockVars>>
notProductBlock == <<carouselVars, mediaVars, modalVars, navVars, parseVars, fetchVars, mega, pager, header>>
notMega == <<carouselVars, mediaVars, modalVars, navVars, parseVars, fetchVars, productBlock, pager, header>>
notPager == <<carouselVars, mediaVars, modalVars, navVars, parseVars, fetchVars, productBlock, mega, header>>
notHeader == <<carouselVars, mediaVars, modalVars, navVars, parseVars, fetchVars, productBlock, mega, pager>>
notAward == <<carouselVars, mediaVars, modalVars, parseVars, fetchVars, productBlock, mega, header>>

\* ================================================================ carousel

SlideIndexes(c) == 0 .. (c.slidesCount - 1)

\* A plausible slip in showSlide: the previous slide and dot keep their class.
showSlide_keepsOld(c, index) ==
    [c EXCEPT
        !.slideActive = c.slideActive
                            \cup (IF index \in SlideIndexes(c) THEN {index} ELSE {}),
        !.dotActive = c.dotActive
                            \cup (IF index \in SlideIndexes(c) THEN {index} ELSE {}),
        !.currentSlide = index]

\* showSlide(index): drop the active class from every slide and dot, add it
\* to slides[index] and dots[index] when they exist, store currentSlide.
showSlide(c, index) ==
    [c EXCEPT
        !.slideActive = (c.slideActive \ SlideIndexes(c))
                            \cup (IF index \in SlideIndexes(c) THEN {index} ELSE {}),
        !.dotActive = (c.dotActive \ SlideIndexes(c))
                            \cup (IF index \in SlideIndexes(c) THEN {index} ELSE {}),
        !.currentSlide = index]

\* A plausible slip in nextSlide: the wrap is taken one step late.
nextSlide_wrapsLate(c) == showSlide(c, (c.currentSlide + 1) % (c.slidesCount + 1))

nextSlide(c) == showSlide(c, (c.currentSlide + 1) % c.slidesCount)

prevSlide(c) == showSlide(c, (c.currentSlide - 1 + c.slidesCount) % c.slidesCount)

\* A closure's view of the page: its own record and the page's armed timers.
World(c, ivs) == [c |-> c, ivs |-> ivs]

\* setInterval returns a handle no armed timer has (a positive integer).
NewTimerId(ivs) ==
    CHOOSE id \in 1 .. (Cardinality(ivs) + 1) : \A t \in ivs : t.id # id

stopAutoplay(w) ==
    IF w.c.autoplayInterval # 0
    THEN World([w.c EXCEPT !.autoplayInterval = 0],
               {t \in w.ivs : t.id # w.c.autoplayInterval})
    ELSE w

startAutoplay(w, i) ==
    IF w.c.isPlaying /\ w.c.slidesCount > 1
    THEN LET s == stopAutoplay(w)
             id == NewTimerId(s.ivs)
         IN World([s.c EXCEPT !.autoplayInterval = id, !.btnIsPlaying = TRUE],
                  s.ivs \cup {[id |-> id, owner |-> i]})
    ELSE w

\* A plausible slip in togglePlayPause: pausing forgets to stop the timer.
togglePlayPause_noStop(w, i) ==
    LET f == World([w.c EXCEPT !.isPlaying = ~w.c.isPlaying], w.ivs)
    IN IF f.c.isPlaying
       THEN startAutoplay(f, i)
       ELSE World([f.c EXCEPT !.btnIsPlaying = FALSE], f.ivs)

\* A plausible slip in togglePlayPause: resuming restarts from the first slide.
togglePlayPause_rewinds(w, i) ==
    LET f == World([w.c EXCEPT !.isPlaying = ~w.c.isPlaying], w.ivs)
    IN IF f.c.isPlaying
       THEN startAutoplay(World(showSlide(f.c, 0), f.ivs), i)
       ELSE LET s == stopAutoplay(f)
            IN World([s.c EXCEPT !.btnIsPlaying = FALSE], s.ivs)

togglePlayPause(w, i) ==
    LET f == World([w.c EXCEPT !.isPlaying = ~w.c.isPlaying], w.ivs)
    IN IF f.c.isPlaying
       THEN startAutoplay(f, i)
       ELSE LET s == stopAutoplay(f)
            IN World([s.c EXCEPT !.btnIsPlaying = FALSE], s.ivs)

\* The document keydown listener of one closure.
onKeydown(c, key) ==
    IF key = "ArrowLeft" THEN prevSlide(c)
    ELSE IF key = "ArrowRight" THEN nextSlide(c)
    ELSE c

\* A plausible slip in handleSwipe: a displacement of exactly the threshold
\* already counts as a swipe.
handleSwipe_inclusive(c) ==
    LET a == IF c.touchEndX <= c.touchStartX - SwipeThreshold THEN nextSlide(c) ELSE c
    IN IF a.touchEndX >= a.touchStartX + SwipeThreshold THEN prevSlide(a) ELSE a

handleSwipe(c) ==
    LET a == IF c.touchEndX < c.touchStartX - SwipeThreshold THEN nextSlide(c) ELSE c
    IN IF a.touchEndX > a.touchStartX + SwipeThreshold THEN prevSlide(a) ELSE a

\* The markup decorate() writes and the closure initCarousel() builds over it:
\* slide 0 and dot 0 carry the active class, the play/pause button carries
\* is-playing when autoplay is on.
initCarousel(block, slidesCount, autoplay) ==
    [block |-> block, attached |-> TRUE, slidesCount |-> slidesCount,
     currentSlide |-> 0, slideActive |-> {0}, dotActive |-> {0},
     isPlaying |-> autoplay, autoplayInterval |-> 0, btnIsPlaying |-> autoplay,
     touchStartX |-> 0, touchEndX |-> 0]

\* Dispatch of one keydown event: the document runs its listeners in the
\* order they were added.
RECURSIVE dispatchKeydown(_, _, _)
dispatchKeydown(cs, listeners, key) ==
    IF listeners = << >> THEN cs
    ELSE LET i == Head(listeners)
         IN dispatchKeydown([cs EXCEPT ![i] = onKeydown(cs[i], key)],
                            Tail(listeners), key)

Instances == 1 .. Len(carousels)

\* decorate(block) with a row set of slidesCount >= 2 slides: the block is
\* cleared (what an earlier decoration rendered leaves the document), the
\* markup is written and initCarousel runs.
Decorate(block, slidesCount, autoplay) ==
    /\ Len(carousels) < MaxInstances
    /\ LET i == Len(carousels) + 1
           cleared == [j \in Instances |->
                          IF carousels[j].block = block
                          THEN [carousels[j] EXCEPT !.attached = FALSE]
                          ELSE carousels[j]]
           w == IF autoplay
                THEN startAutoplay(World(initCarousel(block, slidesCount, autoplay),
                                         intervals), i)
                ELSE World(initCarousel(block, slidesCount, autoplay), intervals)
       IN /\ carousels' = Append(cleared, w.c)
          /\ intervals' = w.ivs
          /\ keydownListeners' = Append(keydownListeners, i)
    /\ UNCHANGED notCarousel

DecorateOnce(block, slidesCount, autoplay) ==
    /\ Len(carousels) = 0
    /\ Decorate(block, slidesCount, autoplay)

NextClick(i) ==
    /\ carousels[i].attached
    /\ carousels' = [carousels EXCEPT ![i] = nextSlide(@)]
    /\ UNCHANGED <<keydownListeners, intervals>>
    /\ UNCHANGED notCarousel

PrevClick(i) ==
    /\ carousels[i].attached
    /\ carousels' = [carousels EXCEPT ![i] = prevSlide(@)]
    /\ UNCHANGED <<keydownListeners, intervals>>
    /\ UNCHANGED notCarousel

DotClick(i, index) ==
    /\ carousels[i].attached
    /\ index \in SlideIndexes(carousels[i])
    /\ carousels' = [carousels EXCEPT ![i] = showSlide(@, index)]
    /\ UNCHANGED <<keydownListeners, intervals>>
    /\ UNCHANGED notCarousel

PlayPauseClick(i) ==
    /\ carousels[i].attached
    /\ LET w == togglePlayPause(World(carousels[i], intervals), i)
       IN /\ carousels' = [carousels EXCEPT ![i] = w.c]
          /\ intervals' = w.ivs
    /\ UNCHANGED keydownListeners
    /\ UNCHANGED notCarousel

KeyDown(key) ==
    /\ Len(carousels) > 0
    /\ carousels' = dispatchKeydown(carousels, keydownListeners, key)
    /\ UNCHANGED <<keydownListeners, intervals>>
    /\ UNCHANGED notCarousel

TouchStart(i, x) ==
    /\ carousels[i].attached
    /\ carousels' = [carousels EXCEPT ![i] = [@ EXCEPT !.touchStartX = x]]
    /\ UNCHANGED <<keydownListeners, intervals>>
    /\ UNCHANGED notCarousel

TouchEnd(i, x) ==
    /\ carousels[i].attached
    /\ carousels' = [carousels EXCEPT ![i] = handleSwipe([@ EXCEPT !.touchEndX = x])]
    /\ UNCHANGED <<keydownListeners, intervals>>
    /\ UNCHANGED notCarousel

\* One firing of an armed interval timer: its callback is the owner's nextSlide.
AutoplayTick(t) ==
    /\ t \in intervals
    /\ carousels' = [carousels EXCEPT ![t.owner] = nextSlide(@)]
    /\ UNCHANGED <<keydownListeners, intervals>>
    /\ UNCHANGED notCarousel

\* ================================================ image-cta-overlay media

\* createCardHTML: the poster image when the card has one; the video, a play
\* button and a pause button (style display:none) when it has a video.  The
\* inline display of the other elements starts empty.
createCard(f) ==
    [hasImage |-> f.image, hasVideo |-> f.video,
     imageDisplay |-> "", videoDisplay |-> "",
     playBtnDisplay |-> "", pauseBtnDisplay |-> "none",
     videoPaused |-> TRUE]

\* A plausible variant of the play handler: starting one card pauses the rest.
onPlayClick_exclusive(cs, i) ==
    [j \in 1 .. Len(cs) |->
        IF j = i
        THEN [cs[j] EXCEPT
                !.imageDisplay = IF cs[j].hasImage THEN "none" ELSE @,
                !.videoDisplay = "block", !.videoPaused = FALSE,
                !.playBtnDisplay = "none", !.pauseBtnDisplay = "flex"]
        ELSE IF cs[j].hasVideo
        THEN [cs[j] EXCEPT !.videoPaused = TRUE,
                !.playBtnDisplay = "flex", !.pauseBtnDisplay = "none"]
        ELSE cs[j]]

\* Play button click: hide the image, show and play the video, swap buttons.
onPlayClick(cs, i) ==
    [cs EXCEPT ![i] = [@ EXCEPT
        !.imageDisplay = IF cs[i].hasImage THEN "none" ELSE @,
        !.videoDisplay = "block",
        !.videoPaused = FALSE,
        !.playBtnDisplay = "none",
        !.pauseBtnDisplay = "flex"]]

\* Pause button click: pause the video, swap buttons.
onPauseClick(cs, i) ==
    [cs EXCEPT ![i] = [@ EXCEPT
        !.videoPaused = TRUE,
        !.pauseBtnDisplay = "none",
        !.playBtnDisplay = "flex"]]

\* 'ended' listener of the video: it swaps the buttons and nothing else. The
\* video is rendered with the loop attribute, so the element is not paused at
\* its end.
onEnded(cs, i) ==
    [cs EXCEPT ![i] = [@ EXCEPT
        !.pauseBtnDisplay = "none",
        !.playBtnDisplay = "flex"]]

CardConfigs ==
    UNION {[1 .. n -> VideoFlags] : n \in 1 .. MaxCards}

\* decorate(block) of image-cta-overlay followed by initVideoPlayers.
DecorateCards(cfg) ==
    /\ cards = << >>
    /\ cards' = [j \in 1 .. Len(cfg) |-> createCard(cfg[j])]
    /\ UNCHANGED notMedia

CardIds == 1 .. Len(cards)

\* The listeners exist only on cards with a video and a play button
\* (initVideoPlayers returns early otherwise); a button is clicked while shown.
PlayClick(i) ==
    /\ cards[i].hasVideo
    /\ cards[i].playBtnDisplay # "none"
    /\ cards' = onPlayClick(cards, i)
    /\ UNCHANGED notMedia

PauseClick(i) ==
    /\ cards[i].hasVideo
    /\ cards[i].pauseBtnDisplay # "none"
    /\ cards' = onPauseClick(cards, i)
    /\ UNCHANGED notMedia

\* An 'ended' event reaches the video while it plays (a looping element
\* raises none by itself; a dispatched one runs the listener).
Ended(i) ==
    /\ cards[i].hasVideo
    /\ ~cards[i].videoPaused
    /\ cards' = onEnded(cards, i)
    /\ UNCHANGED notMedia

NextMedia ==
    \/ \E cfg \in CardConfigs : DecorateCards(cfg)
    \/ \E i \in CardIds : PlayClick(i)
    \/ \E i \in CardIds : PauseClick(i)
    \/ \E i \in CardIds : Ended(i)

\* ============================================================ video modal

NoModal == [decorated |-> FALSE, active |-> FALSE, src |-> "", playButtons |-> << >>]

\* createCardHTML: data-src of the play button of a card with a video.
embedSrc(videoId) == "https://www.youtube.com/embed/" \o videoId

\* createVideoModal: no is-active class, iframe src="".
createVideoModal(videoIds) ==
    [decorated |-> TRUE, active |-> FALSE, src |-> "",
     playButtons |-> [n \in 1 .. Len(videoIds) |-> embedSrc(videoIds[n])]]

Page(ms, overflow) == [ms |-> ms, overflow |-> overflow]

openVideo(pg, b, videoSrc) ==
    Page([pg.ms EXCEPT ![b] = [@ EXCEPT !.src = videoSrc \o "?autoplay=1&rel=0",
                                        !.active = TRUE]],
         "hidden")

\* A plausible slip in closeVideo: the iframe keeps its source.
closeVideo_keepsSrc(pg, b) ==
    Page([pg.ms EXCEPT ![b] = [@ EXCEPT !.active = FALSE]], "")

closeVideo(pg, b) ==
    Page([pg.ms EXCEPT ![b] = [@ EXCEPT !.src = "", !.active = FALSE]], "")

onPlayButton(pg, b, n) ==
    LET videoSrc == pg.ms[b].playButtons[n]
    IN IF videoSrc # "" THEN openVideo(pg, b, videoSrc) ELSE pg

onModalKeydown(pg, b, key) ==
    IF key = "Escape" /\ pg.ms[b].active THEN closeVideo(pg, b) ELSE pg

RECURSIVE dispatchModalKeydown(_, _, _)
dispatchModalKeydown(pg, listeners, key) ==
    IF listeners = << >> THEN pg
    ELSE dispatchModalKeydown(onModalKeydown(pg, Head(listeners), key),
                              Tail(listeners), key)

ButtonConfigs == UNION {[1 .. n -> VideoIds] : n \in 0 .. MaxButtons}

\* decorate(block) of image-layered-text or block-image, then initVideoPlayer.
DecorateModal(b, videoIds) ==
    /\ ~modals[b].decorated
    /\ modals' = [modals EXCEPT ![b] = createVideoModal(videoIds)]
    /\ modalListeners' = Append(modalListeners, b)
    /\ UNCHANGED bodyOverflow
    /\ UNCHANGED notModal

ModalPlayClick(b, n) ==
    /\ modals[b].decorated
    /\ n \in 1 .. Len(modals[b].playButtons)
    /\ LET pg == onPlayButton(Page(modals, bodyOverflow), b, n)
       IN modals' = pg.ms /\ bodyOverflow' = pg.overflow
    /\ UNCHANGED modalListeners
    /\ UNCHANGED notModal

OverlayClick(b) ==
    /\ modals[b].decorated
    /\ LET pg == closeVideo(Page(modals, bodyOverflow), b)
       IN modals' = pg.ms /\ bodyOverflow' = pg.overflow
    /\ UNCHANGED modalListeners
    /\ UNCHANGED notModal

CloseClick(b) ==
    /\ modals[b].decorated
    /\ LET pg == closeVideo(Page(modals, bodyOverflow), b)
       IN modals' = pg.ms /\ bodyOverflow' = pg.overflow
    /\ UNCHANGED modalListeners
    /\ UNCHANGED notModal

ModalKeyDown(key) ==
    /\ modalListeners # << >>
    /\ LET pg == dispatchModalKeydown(Page(modals, bodyOverflow), modalListeners, key)
       IN modals' = pg.ms /\ bodyOverflow' = pg.overflow
    /\ UNCHANGED modalListeners
    /\ UNCHANGED notModal

NextModal ==
    \/ \E b \in ModalBlocks, ids \in ButtonConfigs : DecorateModal(b, ids)
    \/ \E b \in ModalBlocks, n \in 1 .. MaxButtons : ModalPlayClick(b, n)
    \/ \E b \in ModalBlocks : OverlayClick(b)
    \/ \E b \in ModalBlocks : CloseClick(b)
    \/ \E k \in Keys : ModalKeyDown(k)

\* ======================================================= award sticky nav

NoNav == [setup |-> FALSE, originalOffset |-> Null, isFixed |-> FALSE,
          classFixed |-> FALSE, position |-> "", top |-> "",
          scrollTicking |-> FALSE, rafPending |-> 0,
          resizeTimeout |-> FALSE, initialCheck |-> FALSE]

\* The five inline styles (top, left, right, width, zIndex) are written and
\* cleared together; top stands for them.
makeFixed(n) ==
    [n EXCEPT !.classFixed = TRUE, !.position = "fixed", !.top = "200px"]

makeRelative(n) ==
    [n EXCEPT !.classFixed = FALSE, !.position = "relative", !.top = ""]

\* nav.getBoundingClientRect().top + scroll: a fixed element sits at its
\* style top in the viewport, an element in the flow at its page offset.
measureOffset(n, w) ==
    IF n.position = "fixed" THEN FixedTopPosition + w.scrollY ELSE w.naturalOffset

getOriginalOffset(n, w) ==
    IF n.originalOffset # Null THEN n
    ELSE LET m == IF n.isFixed THEN makeRelative(n) ELSE n
         IN [m EXCEPT !.originalOffset = measureOffset(m, w)]

\* A plausible slip in updateNavPosition: the guard scrollThreshold > 0 is lost.
updateNavPosition_noPositiveGuard(n, w) ==
    IF ~(w.innerWidth >= DesktopMinWidth)
    THEN IF n.isFixed THEN [makeRelative(n) EXCEPT !.isFixed = FALSE] ELSE n
    ELSE LET m == getOriginalOffset(n, w)
             scrollThreshold == m.originalOffset - FixedTopPosition
             shouldBeFixed == w.scrollY >= scrollThreshold
         IN IF shouldBeFixed /\ ~m.isFixed
            THEN [makeFixed(m) EXCEPT !.isFixed = TRUE]
            ELSE IF ~shouldBeFixed /\ m.isFixed
            THEN [makeRelative(m) EXCEPT !.isFixed = FALSE]
            ELSE m

updateNavPosition(n, w) ==
    IF ~(w.innerWidth >= DesktopMinWidth)
    THEN IF n.isFixed THEN [makeRelative(n) EXCEPT !.isFixed = FALSE] ELSE n
    ELSE LET m == getOriginalOffset(n, w)
             scrollThreshold == m.originalOffset - FixedTopPosition
             shouldBeFixed == w.scrollY >= scrollThreshold /\ scrollThreshold > 0
         IN IF shouldBeFixed /\ ~m.isFixed
            THEN [makeFixed(m) EXCEPT !.isFixed = TRUE]
            ELSE IF ~shouldBeFixed /\ m.isFixed
            THEN [makeRelative(m) EXCEPT !.isFixed = FALSE]
            ELSE m

\* setupScrollFixedPosition(nav): the nav starts relative, the scroll and
\* resize listeners are added and the initial check is scheduled.
setupScrollFixedPosition ==
    [NoNav EXCEPT !.setup = TRUE, !.position = "relative", !.initialCheck = TRUE]

\* A plausible slip in the scroll listener: every event requests a frame.
Scroll_unthrottled(y) ==
    /\ nav.setup
    /\ y # win.scrollY
    /\ win' = [win EXCEPT !.scrollY = y]
    /\ nav' = [nav EXCEPT !.rafPending = @ + 1, !.scrollTicking = TRUE]
    /\ UNCHANGED notNav

\* A scroll event: at most one animation frame is requested at a time.
Scroll(y) ==
    /\ nav.setup
    /\ y # win.scrollY
    /\ win' = [win EXCEPT !.scrollY = y]
    /\ nav' = IF ~nav.scrollTicking
              THEN [nav EXCEPT !.rafPending = @ + 1, !.scrollTicking = TRUE]
              ELSE nav
    /\ UNCHANGED notNav

AnimationFrame ==
    /\ nav.rafPending > 0
    /\ nav' = [updateNavPosition(nav, win) EXCEPT
                  !.scrollTicking = FALSE, !.rafPending = @ - 1]
    /\ UNCHANGED win
    /\ UNCHANGED notNav

\* A resize event of the window (the layout may reflow). The block has two
\* resize listeners, the nav's and the pagination's: each restarts its own
\* 250 ms timer.
Resize(width, offset) ==
    /\ nav.setup
    /\ <<width, offset>> # <<win.innerWidth, win.naturalOffset>>
    /\ win' = [win EXCEPT !.innerWidth = width, !.naturalOffset = offset]
    /\ nav' = [nav EXCEPT !.resizeTimeout = TRUE]
    /\ pager' = [pager EXCEPT !.resizeTimeout = TRUE]
    /\ UNCHANGED notAward

\* A plausible slip in the resize handler: the isFixed flag is not reset.
ResizeTimeout_keepsFlag ==
    /\ nav.resizeTimeout
    /\ ~nav.initialCheck
    /\ nav' = updateNavPosition(
                  [makeRelative(nav) EXCEPT !.originalOffset = Null,
                                            !.resizeTimeout = FALSE], win)
    /\ UNCHANGED win
    /\ UNCHANGED notNav

\* The debounced resize handler, 250 ms after the last resize event and so
\* after the initial check: reset everything, then update.
ResizeTimeout ==
    /\ nav.resizeTimeout
    /\ ~nav.initialCheck
    /\ nav' = updateNavPosition(
                  [makeRelative(nav) EXCEPT !.originalOffset = Null,
                                            !.isFixed = FALSE,
                                            !.resizeTimeout = FALSE], win)
    /\ UNCHANGED win
    /\ UNCHANGED notNav

\* The initial check, 100 ms after setup.
InitialCheck ==
    /\ nav.initialCheck
    /\ nav' = IF win.scrollY > 0 /\ win.innerWidth >= DesktopMinWidth
              THEN updateNavPosition([nav EXCEPT !.initialCheck = FALSE], win)
              ELSE [nav EXCEPT !.initialCheck = FALSE]
    /\ UNCHANGED win
    /\ UNCHANGED notNav

\* ==================================================== authored block rows
\* A string is a sequence of tokens, each token a run of characters.  A cell
\* is its innerHTML; a row is the sequence of its cells.

AOpen == "<a href=\""
ImgOpen == "<img src=\""

\* String.prototype.toLowerCase, token by token.
toLowerCase(s) ==
    LET LowerCase ==
    ("Headline" :> "headline") @@ ("Body" :> "body") @@ ("Copy" :> "copy")
    @@ ("Image" :> "image") @@ ("Images" :> "images") @@ ("Block" :> "block")
    @@ ("Column" :> "column") @@ ("Notes" :> "notes") @@ ("Margin" :> "margin")
    @@ ("Top" :> "top") @@ ("Align" :> "align") @@ ("Alpha" :> "alpha")
    @@ ("Gamma" :> "gamma") @@ ("Yes" :> "yes") @@ ("No" :> "no")
    @@ ("Maybe" :> "maybe") @@ ("Diagonal" :> "diagonal") @@ ("Center" :> "center")
    IN  [i \in DOMAIN s |-> IF s[i] \in DOMAIN LowerCase THEN LowerCase[s[i]] ELSE s[i]]

\* parseInt(digits, 10) of a run of digits.
parseInt ==
    ("0" :> 0) @@ ("1" :> 1) @@ ("2" :> 2) @@ ("3" :> 3) @@ ("5" :> 5) @@ ("3000" :> 3000)

RECURSIVE Join(_)
Join(s) == IF s = << >> THEN "" ELSE Head(s) \o Join(Tail(s))

\* Element.textContent: the characters of the cell without its markup;
\* innerHTML writes an ampersand as the entity '&amp;', in text and in
\* attribute values alike, and textContent gives the character itself.
RECURSIVE textContent(_)
textContent(html) ==
    IF html = << >> THEN << >>
    ELSE IF Head(html) \in {AOpen, ImgOpen} THEN textContent(Tail(Tail(html)))
    ELSE IF Head(html) \in {"\">", "</a>"} THEN textContent(Tail(html))
    ELSE IF Head(html) = "&amp;" THEN <<"&">> \o textContent(Tail(html))
    ELSE <<Head(html)>> \o textContent(Tail(html))

RECURSIVE trimStart(_)
trimStart(s) == IF s # << >> /\ Head(s) = " " THEN trimStart(Tail(s)) ELSE s

trim(s) ==
    LET Reverse(t) == [i \in 1 .. Len(t) |-> t[Len(t) + 1 - i]]
    IN  Reverse(trimStart(Reverse(trimStart(s))))

\* cols[0].textContent.trim().toLowerCase().replace(/\s+/g, '')
normalizeLabel(cell) ==
    SelectSeq(toLowerCase(trim(textContent(cell))), LAMBDA t : t # " ")

\* cols[1].textContent.trim()
rawValueOf(cell) == trim(textContent(cell))

\* cols[1].textContent.trim().toLowerCase()
valueOf(cell) == Join(toLowerCase(rawValueOf(cell)))

\* value.replace(/\s+/g, '-')
dashed(cell) ==
    Join([i \in DOMAIN rawValueOf(cell) |->
            IF rawValueOf(cell)[i] = " " THEN "-" ELSE toLowerCase(rawValueOf(cell))[i]])

\* html.match(/href="([^"]+)"/g), html.match(/src="([^"]+)"/g): the values
\* of every non-empty attribute that tag opens, in document order.
RECURSIVE attrValues(_, _)
attrValues(html, open) ==
    IF Len(html) < 2 THEN << >>
    ELSE IF Head(html) = open /\ html[2] # ""
         THEN <<html[2]>> \o attrValues(Tail(Tail(html)), open)
         ELSE attrValues(Tail(html), open)

\* carousel.js and image-cta-overlay.js: href, else src, else URL-looking text.
extractImageUrl(text, html) ==
    IF attrValues(html, AOpen) # << >> THEN attrValues(html, AOpen)[1]
    ELSE IF attrValues(html, ImgOpen) # << >> THEN attrValues(html, ImgOpen)[1]
    ELSE IF text # << >> /\ Head(text) \in {"http", "/"} THEN Join(trim(text))
    ELSE ""

\* text.js (block-image): href, else src, else the text whatever it is.
blockImage_extractImageUrl(textValue, htmlValue) ==
    IF attrValues(htmlValue, AOpen) # << >> THEN attrValues(htmlValue, AOpen)[1]
    ELSE IF attrValues(htmlValue, ImgOpen) # << >> THEN attrValues(htmlValue, ImgOpen)[1]
    ELSE Join(textValue)

\* hero-image.js: the same order, quotes of either kind around the attribute.
heroImage_extractImageUrl(textValue, htmlValue) ==
    IF attrValues(htmlValue, AOpen) # << >> THEN attrValues(htmlValue, AOpen)[1]
    ELSE IF attrValues(htmlValue, ImgOpen) # << >> THEN attrValues(htmlValue, ImgOpen)[1]
    ELSE Join(textValue)

\* image-cta-overlay.js extractVideoUrl: URL-looking text only.
extractVideoUrl(text) ==
    IF trim(text) # << >> /\ Head(trim(text)) \in {"http", "/"} THEN Join(trim(text))
    ELSE ""

\* rawValue.split(',').map((s) => s.trim()).SelectSeq((s) => s)
RECURSIVE split(_, _)
split(s, cur) ==
    IF s = << >> THEN <<cur>>
    ELSE IF Head(s) = "," THEN <<cur>> \o split(Tail(s), << >>)
    ELSE split(Tail(s), Append(cur, Head(s)))

imgUrls(rawValue) ==
    SelectSeq([i \in DOMAIN split(rawValue, << >>) |-> trim(split(rawValue, << >>)[i])],
              LAMBDA u : u # << >>)

\* if (!images.includes(url)) images.push(url), for each url in turn
RECURSIVE pushNew(_, _)
pushNew(images, urls) ==
    IF urls = << >> THEN images
    ELSE pushNew(IF \E i \in DOMAIN images : images[i] = Head(urls)
                 THEN images ELSE Append(images, Head(urls)),
                 Tail(urls))

\* label.match(/^(.+?)#?(\d+)$/): the text before the optional '#' and the
\* closing run of digits; no match without a closing run of digits after
\* at least one other character.
labelMatch(label) ==
    LET n == Len(label)
        hashed == n >= 3 /\ label[n - 1] = "#"
    IN  IF n >= 2 /\ label[n] \in DOMAIN parseInt
        THEN [matched |-> TRUE,
              prefix |-> SubSeq(label, 1, IF hashed THEN n - 2 ELSE n - 1),
              index |-> parseInt[label[n]] - 1]
        ELSE [matched |-> FALSE, prefix |-> << >>, index |-> 0]

\* ---------------------------------------------- carousel parseDocumentRows

\* What a decorate call is left with when parseDocumentRows throws.
Thrown == [threw |-> TRUE, styles |-> << >>, items |-> << >>]

CarouselStyles ==
    [align |-> "center", marginTop |-> TRUE, marginBottom |-> TRUE,
     backgroundColor |-> "default",
     headlineFontDesktop |-> "40px-semibold", headlineFontMobile |-> "24px-light",
     bodyFontDesktop |-> "16px-normal", bodyFontMobile |-> "14px-normal",
     autoplay |-> FALSE, autoplayDelay |-> 5000]

EmptySlide == [headline |-> "", bodyCopy |-> "", image |-> "", altTag |-> ""]

\* The style switch on the normalized label (everything but the images case).
carouselStyle(styles, label, cell) ==
    CASE label \in {"contentalignment", "align"} ->
            [styles EXCEPT !.align = IF valueOf(cell) # "" THEN valueOf(cell) ELSE "center"]
      [] label = "margintop" ->
            [styles EXCEPT !.marginTop = valueOf(cell) \in {"yes", "true"}]
      [] label = "marginbottom" ->
            [styles EXCEPT !.marginBottom = valueOf(cell) \in {"yes", "true"}]
      [] label \in {"backgroundcolor", "background"} ->
            [styles EXCEPT !.backgroundColor =
                              IF valueOf(cell) # "" THEN valueOf(cell) ELSE "default"]
      [] label \in {"headlinefontstyledesktop", "headlinefontdesktop"} ->
            [styles EXCEPT !.headlineFontDesktop = dashed(cell)]
      [] label \in {"headlinefontstylemobile", "headlinefontmobile"} ->
            [styles EXCEPT !.headlineFontMobile = dashed(cell)]
      [] label \in {"bodyfontstyledesktop", "bodyfontdesktop"} ->
            [styles EXCEPT !.bodyFontDesktop = dashed(cell)]
      [] label \in {"bodyfontstylemobile", "bodyfontmobile"} ->
            [styles EXCEPT !.bodyFontMobile = dashed(cell)]
      [] label = "autoplay" ->
            [styles EXCEPT !.autoplay = valueOf(cell) \in {"yes", "true"}]
      [] label = "autoplaydelay" ->
            [styles EXCEPT !.autoplayDelay =
                  IF /\ rawValueOf(cell) # << >>
                     /\ Head(rawValueOf(cell)) \in DOMAIN parseInt
                     /\ parseInt[Head(rawValueOf(cell))] # 0
                  THEN parseInt[Head(rawValueOf(cell))] ELSE 5000]
      [] OTHER -> styles

\* case 'images': the URL-looking entries of the list, then the links and
\* image sources of the cell's markup that are not collected yet.
carouselImages(images, cell) ==
    LET urls == imgUrls(rawValueOf(cell))
        clean == SelectSeq([i \in DOMAIN urls |-> extractImageUrl(urls[i], << >>)],
                           LAMBDA u : u # "")
    IN  pushNew(pushNew(images \o clean, attrValues(trim(cell), AOpen)),
                attrValues(trim(cell), ImgOpen))

\* while (slides.length <= slideIndex) slides.push({...})
padSlides(slides, slideIndex) ==
    IF Len(slides) <= slideIndex
    THEN slides \o [i \in 1 .. (slideIndex + 1 - Len(slides)) |-> EmptySlide]
    ELSE slides

\* One row of the forEach: style switch, then the numbered-property match.
\* slides[-1] is undefined, so assigning a property of it throws.
carouselRow(acc, row) ==
    IF Len(row) < 2 THEN acc
    ELSE
    LET label == normalizeLabel(row[1])
        cell == row[2]
        styled == [acc EXCEPT
                     !.styles = carouselStyle(@, Join(label), cell),
                     !.images = IF Join(label) \in {"images", "image"}
                                THEN carouselImages(@, cell) ELSE @]
        m == labelMatch(label)
        prop == Join(m.prefix)
        padded == padSlides(acc.slides, m.index)
    IN  IF ~m.matched THEN styled
        ELSE IF prop \notin {"image", "headline", "bodycopy", "body", "alttag", "alt"}
             THEN [styled EXCEPT !.slides = padded]
        ELSE IF m.index < 0 THEN [styled EXCEPT !.threw = TRUE]
        ELSE [styled EXCEPT !.slides = [padded EXCEPT ![m.index + 1] =
                CASE prop = "image" ->
                        [@ EXCEPT !.image = extractImageUrl(rawValueOf(cell), trim(cell))]
                  [] prop = "headline" -> [@ EXCEPT !.headline = Join(rawValueOf(cell))]
                  [] prop \in {"bodycopy", "body"} ->
                        [@ EXCEPT !.bodyCopy = Join(rawValueOf(cell))]
                  [] OTHER -> [@ EXCEPT !.altTag = Join(rawValueOf(cell))]]]

RECURSIVE carouselRows(_, _)
carouselRows(acc, rs) ==
    IF rs = << >> \/ acc.threw THEN acc
    ELSE carouselRows(carouselRow(acc, Head(rs)), Tail(rs))

\* carousel.js parseDocumentRows: the rows, then the collected images onto
\* the slides, one slide per image when no slide was numbered.
parseDocumentRows(block) ==
    LET acc == carouselRows([threw |-> FALSE, styles |-> CarouselStyles,
                             slides |-> << >>, images |-> << >>], block)
        assigned == [i \in DOMAIN acc.slides |->
                        IF i <= Len(acc.images)
                        THEN [acc.slides[i] EXCEPT !.image = acc.images[i]]
                        ELSE acc.slides[i]]
    IN  IF acc.threw THEN Thrown
        ELSE [threw |-> FALSE, styles |-> acc.styles,
              items |-> IF acc.slides = << >>
                        THEN [i \in DOMAIN acc.images |->
                                [EmptySlide EXCEPT !.image = acc.images[i]]]
                        ELSE assigned]

\* ------------------------------------- image-cta-overlay parseDocumentRows

OverlayStyles ==
    [blockType |-> "three-blocks", mediaType |-> "animation", align |-> "left",
     marginTop |-> TRUE, marginBottom |-> TRUE, backgroundColor |-> "default",
     headlineFontDesktop |-> "40px-semibold", headlineFontMobile |-> "24px-light",
     bodyFontDesktop |-> "16px-normal", bodyFontMobile |-> "14px-normal"]

EmptyOverlayCard ==
    [image |-> "", video |-> "", headline |-> "", bodyCopy |-> "", altTag |-> "",
     ctaUrl |-> "", ctaText |-> ""]

overlayStyle(styles, label, cell) ==
    CASE label \in {"selectblocktype", "blocktype"} ->
            [styles EXCEPT !.blockType =
                              IF valueOf(cell) # "" THEN valueOf(cell) ELSE "three-blocks"]
      [] label \in {"mediatypeitems", "mediatype"} ->
            [styles EXCEPT !.mediaType =
                              IF valueOf(cell) # "" THEN valueOf(cell) ELSE "animation"]
      [] label \in {"contentalignment", "align"} ->
            [styles EXCEPT !.align = IF valueOf(cell) # "" THEN valueOf(cell) ELSE "left"]
      [] label = "margintop" ->
            [styles EXCEPT !.marginTop = valueOf(cell) \in {"yes", "true"}]
      [] label = "marginbottom" ->
            [styles EXCEPT !.marginBottom = valueOf(cell) \in {"yes", "true"}]
      [] label \in {"backgroundcolor", "background"} ->
            [styles EXCEPT !.backgroundColor =
                              IF valueOf(cell) # "" THEN valueOf(cell) ELSE "default"]
      [] label \in {"headlinefontstyledesktop", "headlinefontdesktop"} ->
            [styles EXCEPT !.headlineFontDesktop = dashed(cell)]
      [] label \in {"headlinefontstylemobile", "headlinefontmobile"} ->
            [styles EXCEPT !.headlineFontMobile = dashed(cell)]
      [] label \in {"bodyfontstyledesktop", "bodyfontdesktop"} ->
            [styles EXCEPT !.bodyFontDesktop = dashed(cell)]
      [] label \in {"bodyfontstylemobile", "bodyfontmobile"} ->
            [styles EXCEPT !.bodyFontMobile = dashed(cell)]
      [] OTHER -> styles

\* One row: style switch, then the numbered property if its card exists.
overlayRow(acc, row) ==
    IF Len(row) < 2 THEN acc
    ELSE
    LET label == normalizeLabel(row[1])
        cell == row[2]
        styled == [acc EXCEPT !.styles = overlayStyle(@, Join(label), cell)]
        m == labelMatch(label)
        prop == Join(m.prefix)
    IN  IF ~m.matched \/ ~(m.index >= 0 /\ m.index < Len(acc.cards)) THEN styled
        ELSE [styled EXCEPT !.cards[m.index + 1] =
                CASE prop \in {"image", "thumbnailimage"} ->
                        [@ EXCEPT !.image = extractImageUrl(rawValueOf(cell), trim(cell))]
                  [] prop \in {"video", "animationvideo"} ->
                        [@ EXCEPT !.video = extractVideoUrl(rawValueOf(cell))]
                  [] prop = "headline" -> [@ EXCEPT !.headline = Join(rawValueOf(cell))]
                  [] prop \in {"bodycopy", "body"} ->
                        [@ EXCEPT !.bodyCopy = Join(rawValueOf(cell))]
                  [] prop \in {"alttag", "alt"} ->
                        [@ EXCEPT !.altTag = Join(rawValueOf(cell))]
                  [] prop \in {"ctaurl", "cta"} ->
                        [@ EXCEPT !.ctaUrl = Join(rawValueOf(cell))]
                  [] prop = "ctatext" -> [@ EXCEPT !.ctaText = Join(rawValueOf(cell))]
                  [] OTHER -> @]

RECURSIVE overlayRows(_, _)
overlayRows(acc, rs) ==
    IF rs = << >> THEN acc ELSE overlayRows(overlayRow(acc, Head(rs)), Tail(rs))

\* image-cta-overlay.js parseDocumentRows: three pre-allocated cards (built
\* as a sequence value), the non-empty ones returned, all three when none is.
imageCtaOverlay_parseDocumentRows(block) ==
    LET acc == overlayRows([styles |-> OverlayStyles,
                            cards |-> << >> \o [i \in 1 .. MaxCards |-> EmptyOverlayCard]],
                           block)
        validCards == SelectSeq(acc.cards,
                        LAMBDA c : c.image # "" \/ c.video # ""
                                   \/ c.headline # "" \/ c.bodyCopy # "")
    IN  [threw |-> FALSE, styles |-> acc.styles,
         items |-> IF validCards # << >> THEN validCards ELSE acc.cards]

\* ------------------------------------- block-image parseDocumentRows (text.js)

BlockImageStyles ==
    [blockType |-> "4", mediaType |-> "video", videoSource |-> "youtube",
     ctaType |-> "", buttonType |-> "", marginTop |-> FALSE, marginBottom |-> TRUE,
     align |-> "left", fontStyleDesktop |-> "40px-semibold",
     fontStyleMobile |-> "40px-light", contentAlignment |-> "left"]

EmptyBlockCard ==
    [altTag |-> "", videoId |-> "", ctaLabel |-> "", ctaUrl |-> "",
     ctaAdditionalClass |-> "", eyebrow |-> "", headline |-> "", bodyCopy |-> "",
     textInImage |-> "", image |-> ""]

BlockImageStyleLabels ==
    {"blocktype", "mediatype", "videosource", "ctatype", "buttontype", "margintop",
     "marginbottom", "align", "stylefontstyledesktop", "fontstyledesktop",
     "stylefontstylemobile", "fontstylemobile", "contentalignment",
     "blockimage", "image", "images"}

\* value.includes(word), for a value of whole words
includes(cell, word) ==
    \E i \in DOMAIN rawValueOf(cell) : toLowerCase(rawValueOf(cell))[i] = word

blockImageStyle(styles, label, cell) ==
    CASE label = "blocktype" ->
            LET digits == SelectSeq(rawValueOf(cell), LAMBDA t : t \in DOMAIN parseInt)
            IN  IF digits # << >> THEN [styles EXCEPT !.blockType = digits[1]] ELSE styles
      [] label = "mediatype" -> [styles EXCEPT !.mediaType = valueOf(cell)]
      [] label = "videosource" -> [styles EXCEPT !.videoSource = valueOf(cell)]
      [] label = "ctatype" -> [styles EXCEPT !.ctaType = Join(rawValueOf(cell))]
      [] label = "buttontype" -> [styles EXCEPT !.buttonType = Join(rawValueOf(cell))]
      [] label = "margintop" ->
            [styles EXCEPT !.marginTop = valueOf(cell) \in {"yes", "true"}]
      [] label = "marginbottom" ->
            [styles EXCEPT !.marginBottom = valueOf(cell) \in {"yes", "true"}]
      [] label = "align" ->
            [styles EXCEPT !.align = IF includes(cell, "center") THEN "center"
                                     ELSE IF includes(cell, "right") THEN "right"
                                     ELSE "left"]
      [] label \in {"stylefontstyledesktop", "fontstyledesktop"} ->
            [styles EXCEPT !.fontStyleDesktop = dashed(cell)]
      [] label \in {"stylefontstylemobile", "fontstylemobile"} ->
            [styles EXCEPT !.fontStyleMobile = dashed(cell)]
      [] label = "contentalignment" ->
            [styles EXCEPT !.contentAlignment =
                              IF valueOf(cell) # "" THEN valueOf(cell) ELSE "left"]
      [] OTHER -> styles

\* case 'blockimage' | 'image' | 'images': every entry of the list, then the
\* links and image sources of the cell's markup that are not collected yet.
blockImageImages(images, cell) ==
    LET urls == imgUrls(rawValueOf(cell))
    IN  pushNew(pushNew(images \o [i \in DOMAIN urls |->
                                     blockImage_extractImageUrl(urls[i], << >>)],
                        attrValues(trim(cell), AOpen)),
                attrValues(trim(cell), ImgOpen))

\* while (cards.length <= cardIndex) cards.push({...}); also the padding to
\* one card per image after the rows.
padCards(cs, cardIndex) ==
    IF Len(cs) <= cardIndex
    THEN cs \o [i \in 1 .. (cardIndex + 1 - Len(cs)) |-> EmptyBlockCard]
    ELSE cs

BlockImageProps ==
    {"image", "blockimage", "alttag", "alt", "videoid", "video", "ctalabel", "ctaurl",
     "ctaadditionalclass", "ctaadditionalclassname", "eyebrow", "headline",
     "bodycopy", "body", "textintheimage", "textinimage", "imagetext"}

\* One row: the style switch, whose default case matches the numbered
\* property.  cards[-1] is undefined, so assigning a property of it throws.
blockImageRow(acc, row) ==
    IF Len(row) < 2 THEN acc
    ELSE
    LET label == normalizeLabel(row[1])
        cell == row[2]
        m == labelMatch(label)
        prop == Join(SelectSeq(m.prefix, LAMBDA t : t # "#"))
        padded == padCards(acc.cards, m.index)
        raw == Join(rawValueOf(cell))
    IN  IF Join(label) \in {"blockimage", "image", "images"}
        THEN [acc EXCEPT !.images = blockImageImages(@, cell)]
        ELSE IF Join(label) \in BlockImageStyleLabels
        THEN [acc EXCEPT !.styles = blockImageStyle(@, Join(label), cell)]
        ELSE IF ~m.matched THEN acc
        ELSE IF prop \notin BlockImageProps THEN [acc EXCEPT !.cards = padded]
        ELSE IF m.index < 0 THEN [acc EXCEPT !.threw = TRUE]
        ELSE [acc EXCEPT !.cards = [padded EXCEPT ![m.index + 1] =
                CASE prop \in {"image", "blockimage"} ->
                        [@ EXCEPT !.image =
                            blockImage_extractImageUrl(rawValueOf(cell), trim(cell))]
                  [] prop \in {"alttag", "alt"} -> [@ EXCEPT !.altTag = raw]
                  [] prop \in {"videoid", "video"} -> [@ EXCEPT !.videoId = raw]
                  [] prop = "ctalabel" -> [@ EXCEPT !.ctaLabel = raw]
                  [] prop = "ctaurl" ->
                        [@ EXCEPT !.ctaUrl =
                            blockImage_extractImageUrl(rawValueOf(cell), trim(cell))]
                  [] prop \in {"ctaadditionalclass", "ctaadditionalclassname"} ->
                        [@ EXCEPT !.ctaAdditionalClass = raw]
                  [] prop = "eyebrow" -> [@ EXCEPT !.eyebrow = raw]
                  [] prop = "headline" -> [@ EXCEPT !.headline = Join(trim(cell))]
                  [] prop \in {"bodycopy", "body"} ->
                        [@ EXCEPT !.bodyCopy = Join(trim(cell))]
                  [] OTHER -> [@ EXCEPT !.textInImage = raw]]]

RECURSIVE blockImageRows(_, _)
blockImageRows(acc, rs) ==
    IF rs = << >> \/ acc.threw THEN acc
    ELSE blockImageRows(blockImageRow(acc, Head(rs)), Tail(rs))

\* text.js parseDocumentRows of the block-image block: the rows, then one
\* card per collected image, each image onto the card of its position.
blockImage_parseDocumentRows(block) ==
    LET acc == blockImageRows([threw |-> FALSE, styles |-> BlockImageStyles,
                               cards |-> << >>, images |-> << >>], block)
        padded == padCards(acc.cards, Len(acc.images) - 1)
    IN  IF acc.threw THEN Thrown
        ELSE [threw |-> FALSE, styles |-> acc.styles,
              items |-> [i \in DOMAIN padded |->
                            IF i <= Len(acc.images)
                            THEN [padded[i] EXCEPT !.image = acc.images[i]]
                            ELSE padded[i]]]

\* ------------------------------------------------ authoring and decorating

\* The rows an author may put in a block table: <<label cell, value cell>>.
AuthoredRows ==
    { <<<<"Headline", " ", "#", "1">>, <<"Alpha">>>>,
      <<<<"Headline", " ", "#", "3">>, <<"Gamma">>>>,
      <<<<"Body", " ", "Copy", " ", "#", "1">>, <<"Alpha", " ", "Gamma">>>>,
      <<<<"Image", " ", "#", "1">>,
        <<AOpen, "http://x/link", "\">", ImgOpen, "http://x/1.png", "\">", "</a>">>>>,
      <<<<"Image", " ", "#", "1">>, <<"photo.png">>>>,
      <<<<"Headline", " ", "#", "0">>, <<"Alpha">>>>,
      <<<<"Headline", " ", "#", "5">>, <<"Alpha">>>>,
      <<<<"Column", " ", "2">>, <<"Alpha">>>>,
      <<<<"Notes">>, <<"Alpha">>>>,
      <<<<"Margin", " ", "Top">>, <<"Maybe">>>>,
      <<<<"Margin", " ", "Top">>, << >>>>,
      <<<<"Align">>, <<"Diagonal">>>>,
      <<<<"Images">>, <<"http", "://x/1.png", ",", " ", "/", "m/2.png">>>>,
      <<<<"Images">>, <<"photo.png", ",", " ", "/", "m/2.png">>>>,
      <<<<"Images">>, <<AOpen, "http://x/1.png", "\">", "http", "://x/1.png", "</a>">>>>,
      <<<<"Images">>, <<AOpen, "http://x/i?w=1&amp;h=2", "\">",
                        "http", "://x/i?w=1", "&amp;", "h=2", "</a>">>>> }

NotParsed ==
    [block |-> "none", out |-> [threw |-> FALSE, styles |-> << >>, items |-> << >>],
     markup |-> << >>]

\* carousel.js createSlideHTML: the elements of one slide in document order,
\* each with its class and its text (or src).
createSlideHTML(slide, index, isActive) ==
    <<[class |-> IF isActive THEN "carousel-slide carousel-slide--active"
                 ELSE "carousel-slide", text |-> ""],
      [class |-> "carousel-slide-content", text |-> ""]>>
    \o (IF slide.headline # ""
        THEN <<[class |-> "carousel-slide-headline", text |-> slide.headline]>> ELSE << >>)
    \o (IF slide.bodyCopy # ""
        THEN <<[class |-> "carousel-slide-body", text |-> slide.bodyCopy]>> ELSE << >>)
    \o (IF slide.image # ""
        THEN <<[class |-> "carousel-slide-image", text |-> ""],
               [class |-> "img", text |-> slide.image]>>
        ELSE << >>)

\* image-cta-overlay.js createCardHTML, in the same form.
createCardHTML(card, index) ==
    <<[class |-> "image-cta-overlay-card", text |-> ""],
      [class |-> "image-cta-overlay-media", text |-> ""]>>
    \o (IF card.image # ""
        THEN <<[class |-> "image-cta-overlay-img", text |-> card.image]>> ELSE << >>)
    \o (IF card.video # ""
        THEN <<[class |-> "image-cta-overlay-video", text |-> card.video],
               [class |-> "image-cta-overlay-play-btn", text |-> ""],
               [class |-> "image-cta-overlay-pause-btn", text |-> ""]>>
        ELSE << >>)
    \o <<[class |-> "image-cta-overlay-content", text |-> ""]>>
    \o (IF card.headline # ""
        THEN <<[class |-> "image-cta-overlay-headline", text |-> card.headline]>> ELSE << >>)
    \o (IF card.bodyCopy # ""
        THEN <<[class |-> "image-cta-overlay-body", text |-> card.bodyCopy]>> ELSE << >>)
    \o (IF card.ctaUrl # "" /\ card.ctaText # ""
        THEN <<[class |-> "image-cta-overlay-cta", text |-> card.ctaText]>> ELSE << >>)

\* The author adds a row to the block table before the page is loaded.
AuthorRow(r) ==
    /\ parsed.block = "none"
    /\ Len(rows) < MaxRows
    /\ rows' = Append(rows, r)
    /\ UNCHANGED parsed
    /\ UNCHANGED notParse

\* decorate(block) of the carousel block: the parser, then the markup of
\* every slide it returned.
ParseCarousel ==
    /\ parsed.block = "none"
    /\ LET out == parseDocumentRows(rows)
       IN  parsed' = [block |-> "carousel", out |-> out,
                      markup |-> [i \in DOMAIN out.items |->
                                    createSlideHTML(out.items[i], i - 1, i = 1)]]
    /\ UNCHANGED rows
    /\ UNCHANGED notParse

\* decorate(block) of the image-cta-overlay block: the parser, then the
\* markup of every card it returned.
ParseOverlay ==
    /\ parsed.block = "none"
    /\ LET out == imageCtaOverlay_parseDocumentRows(rows)
       IN  parsed' = [block |-> "image-cta-overlay", out |-> out,
                      markup |-> [i \in DOMAIN out.items |->
                                    createCardHTML(out.items[i], i - 1)]]
    /\ UNCHANGED rows
    /\ UNCHANGED notParse

\* decorate(block) of the block-image block, up to the return of its parser.
ParseBlockImage ==
    /\ parsed.block = "none"
    /\ parsed' = [block |-> "block-image", out |-> blockImage_parseDocumentRows(rows),
                  markup |-> << >>]
    /\ UNCHANGED rows
    /\ UNCHANGED notParse

\* ================================================================ key-spec

\* What a fetch can end in: a rejection, or a response with a status and a
\* body that is not JSON, a JSON object, or a JSON array.
Statuses == {200, 404, 500}

SpecObjects ==
    { [leftLabel |-> "Display", leftValue |-> "OLED", rightLabel |-> "Rate", rightValue |-> "120Hz"],
      [leftLabel |-> "Audio", leftValue |-> "40W", rightLabel |-> "Atmos", rightValue |-> ""],
      [leftLabel |-> "", leftValue |-> "", rightLabel |-> "Weight", rightValue |-> "16.6"],
      [leftLabel |-> "HDR", leftValue |-> "HLG", rightLabel |-> "", rightValue |-> ""] }

ArraysOf(S, n) == UNION {[1 .. k -> S] : k \in 0 .. n}

Bodies(S, n) ==
    {[kind |-> "malformed", data |-> << >>], [kind |-> "object", data |-> << >>]}
    \cup {[kind |-> "array", data |-> a] : a \in ArraysOf(S, n)}

Responses(S, n) ==
    {[rejected |-> TRUE, status |-> 0, body |-> [kind |-> "malformed", data |-> << >>]]}
    \cup {[rejected |-> FALSE, status |-> st, body |-> b] : st \in Statuses, b \in Bodies(S, n)}

HARDCODED_SPEC_DATA ==
    << [leftLabel |-> "PICTURE (DISPLAY) - Display Type", leftValue |-> "4K OLED",
        rightLabel |-> "PICTURE (DISPLAY) - Refresh Rate",
        rightValue |-> "120Hz Native (VRR 144Hz)"],
       [leftLabel |-> "PICTURE (DISPLAY) - Wide Colour Gamut", leftValue |-> "OLED Colour",
        rightLabel |-> "PICTURE (PROCESSING) - Picture Processor",
        rightValue |-> "a9 AI Processor 4K Gen8"],
       [leftLabel |-> "PICTURE (PROCESSING) - HDR (High Dynamic Range)",
        leftValue |-> "Dolby Vision / HDR10 / HLG",
        rightLabel |-> "GAMING - G-Sync Compatible (Nvidia)", rightValue |-> "Yes"],
       [leftLabel |-> "GAMING - FreeSync Compatible (AMD)", leftValue |-> "Yes",
        rightLabel |-> "AUDIO - Audio Output", rightValue |-> "40W"],
       [leftLabel |-> "AUDIO - Speaker System", leftValue |-> "2.2 channel",
        rightLabel |-> "AUDIO - Dolby Atmos", rightValue |-> "Yes"],
       [leftLabel |-> "DIMENSIONS AND WEIGHTS - TV Dimensions without Stand (WxHxD)",
        leftValue |-> "1441 x 826 x 45.1",
        rightLabel |-> "DIMENSIONS AND WEIGHTS - TV Weight without Stand",
        rightValue |-> "16.6"] >>

\* response.ok
ok(response) == response.status >= 200 /\ response.status <= 299

\* A plausible slip in loadDataFromAPI: the status of the response is not looked at.
loadDataFromAPI_anyStatus(response) ==
    IF response.rejected \/ response.body.kind = "malformed"
    THEN [null |-> TRUE, data |-> << >>]
    ELSE [null |-> FALSE,
          data |-> IF response.body.kind = "array" THEN response.body.data ELSE << >>]

\* loadDataFromAPI: null when the fetch rejects, the status is not 2xx or
\* the body is not JSON; the array of the body, [] for any other JSON.
loadDataFromAPI(response) ==
    IF response.rejected \/ ~ok(response) \/ response.body.kind = "malformed"
    THEN [null |-> TRUE, data |-> << >>]
    ELSE [null |-> FALSE,
          data |-> IF response.body.kind = "array" THEN response.body.data ELSE << >>]

\* createSpecRowHTML: a column shows its item when label and value are both
\* non-empty; a separator follows rows 0, 2 and 4 unless the row is the last.
createSpecRowHTML(spec, index, total) ==
    [left |-> IF spec.leftLabel # "" /\ spec.leftValue # ""
              THEN <<spec.leftLabel, spec.leftValue>> ELSE << >>,
     right |-> IF spec.rightLabel # "" /\ spec.rightValue # ""
               THEN <<spec.rightLabel, spec.rightValue>> ELSE << >>,
     separator |-> index < total - 1 /\ index \in {0, 2, 4}]

\* createKeySpecHTML: the 'No specifications available' notice or the rows.
createKeySpecHTML(specs) ==
    IF specs = << >> THEN [empty |-> TRUE, rows |-> << >>]
    ELSE [empty |-> FALSE,
          rows |-> [i \in DOMAIN specs |-> createSpecRowHTML(specs[i], i - 1, Len(specs))]]

NoKeySpec ==
    [phase |-> "initial", apiUrl |-> FALSE,
     response |-> [rejected |-> TRUE, status |-> 0, body |-> [kind |-> "malformed", data |-> << >>]],
     view |-> [empty |-> TRUE, rows |-> << >>]]

\* decorate(block) up to the await: without data-api-url it renders the
\* hardcoded rows at once, with it the fetch is under way.
KeySpecDecorate(apiUrl) ==
    /\ keySpec.phase = "initial"
    /\ keySpec' = IF apiUrl
                  THEN [keySpec EXCEPT !.phase = "fetching", !.apiUrl = TRUE]
                  ELSE [keySpec EXCEPT !.phase = "rendered",
                                       !.view = createKeySpecHTML(HARDCODED_SPEC_DATA)]
    /\ UNCHANGED notKeySpec

\* The fetch settles: loadDataFromAPI returns and decorate renders.
KeySpecFetchSettles(response) ==
    /\ keySpec.phase = "fetching"
    /\ LET apiData == loadDataFromAPI(response)
           specs == IF ~apiData.null /\ Len(apiData.data) > 0
                    THEN apiData.data ELSE HARDCODED_SPEC_DATA
       IN  keySpec' = [keySpec EXCEPT !.phase = "rendered", !.response = response,
                                      !.view = createKeySpecHTML(specs)]
    /\ UNCHANGED notKeySpec

\* ========================================================= product-details

\* window.location.pathname, as the sequence of the texts between its
\* slashes ("" before a doubled or after a closing slash).
Paths ==
    UNION {[1 .. n -> {"", "products", "oled55", "qned65", "reviews"}] : n \in 0 .. MaxPath}

\* Prices are amounts in pence; Null stands for a field the object lacks.
ApiProducts ==
    { [sku |-> "OLED55", shortName |-> "OLED 55", price |-> 149900,
       originalPrice |-> 199900, memberPrice |-> 139900, savings |-> 50000],
      [sku |-> "qned65", shortName |-> "QNED 65", price |-> 99900,
       originalPrice |-> 129900, memberPrice |-> 94900, savings |-> 30000],
      [sku |-> "OLED55", shortName |-> "OLED 55", price |-> 149900,
       originalPrice |-> 199900, memberPrice |-> 139900, savings |-> Null],
      [sku |-> "QNED65", shortName |-> "QNED 65", price |-> Null,
       originalPrice |-> Null, memberPrice |-> Null, savings |-> Null] }

\* String.prototype.toUpperCase on a SKU.
toUpperCase(s) ==
    CASE s = "qned65" -> "QNED65"
      [] s = "oled55" -> "OLED55"
      [] s = "products" -> "PRODUCTS"
      [] s = "reviews" -> "REVIEWS"
      [] OTHER -> s

\* header.js getSkuFromUrl: the segment after the first 'products' segment
\* when there is one, else the last segment, uppercased.
header_getSkuFromUrl(pathname) ==
    LET segments == SelectSeq(pathname, LAMBDA t : t # "")
        at == {i \in DOMAIN segments : segments[i] = "products"}
        productsIndex == CHOOSE i \in at : \A j \in at : i <= j
    IN  IF at # {} /\ productsIndex + 1 <= Len(segments)
        THEN toUpperCase(segments[productsIndex + 1])
        ELSE IF segments = << >> THEN "" ELSE toUpperCase(segments[Len(segments)])

\* product-details.js getSkuFromUrl: the last segment, uppercased.
productDetails_getSkuFromUrl(pathname) ==
    LET segments == SelectSeq(pathname, LAMBDA t : t # "")
    IN  IF segments = << >> THEN "" ELSE toUpperCase(segments[Len(segments)])

getFallbackProductData(sku) ==
    [sku |-> IF sku # "" THEN sku ELSE "OLED55G54LW",
     shortName |-> "55 inch LG OLED evo AI G5 4K Smart TV 2025 - Wall mount version",
     price |-> 169900, originalPrice |-> 239999, memberPrice |-> 166502,
     savings |-> 70099]

\* getProductData: the first product of the array whose SKU is the requested
\* one (case-insensitive), with the requested SKU written into it; the
\* fallback on rejection, non-2xx, malformed JSON, other JSON, or no match.
getProductData(sku, response) ==
    IF response.rejected \/ ~ok(response) \/ response.body.kind # "array"
    THEN getFallbackProductData(sku)
    ELSE LET data == response.body.data
             found == {i \in DOMAIN data : toUpperCase(data[i].sku) = toUpperCase(sku)}
             first == CHOOSE i \in found : \A j \in found : i <= j
         IN  IF found = {} THEN getFallbackProductData(sku)
             ELSE [data[first] EXCEPT !.sku = IF sku # "" THEN sku ELSE @]

\* createStickyHeader calls toFixed(2) on savings, originalPrice, price and
\* memberPrice: a TypeError when one of them is not a number.
stickyHeaderThrows(p) ==
    p.savings = Null \/ p.originalPrice = Null \/ p.price = Null \/ p.memberPrice = Null

NoProduct ==
    [phase |-> "initial", pathname |-> << >>, sku |-> "",
     response |-> [rejected |-> TRUE, status |-> 0, body |-> [kind |-> "malformed", data |-> << >>]],
     shown |-> getFallbackProductData("")]

\* decorate(block) up to the await: the SKU is read from the path of the
\* page and the loading notice shown.
ProductDecorate(pathname) ==
    /\ product.phase = "initial"
    /\ product' = [product EXCEPT !.phase = "loading", !.pathname = pathname,
                                  !.sku = productDetails_getSkuFromUrl(pathname)]
    /\ UNCHANGED notProduct

\* The fetch settles: getProductData returns a product, decorate builds the
\* page from it, and its catch block shows the error notice when that throws.
ProductFetchSettles(response) ==
    /\ product.phase = "loading"
    /\ LET p == getProductData(product.sku, response)
       IN  product' = IF stickyHeaderThrows(p)
                      THEN [product EXCEPT !.phase = "error", !.response = response]
                      ELSE [product EXCEPT !.phase = "rendered", !.response = response,
                                           !.shown = p]
    /\ UNCHANGED notProduct

\* ---------------------------------------- product details, decorated again

\* Bound: decorate calls on the one product-details block.
MaxInvocations == 2

\* The container decorate appends to the block after emptying it.
LoadingContainer(sku) ==
    [sku |-> sku, attached |-> TRUE, view |-> "loading",
     shown |-> getFallbackProductData(sku), hasMore |-> FALSE,
     moreHandlers |-> 0, buyHandlers |-> 0, expanded |-> FALSE]

\* initEventListeners(block): block.querySelector finds the controls of the
\* container that is in the block now, and addEventListener gives the 'More'
\* button (when there is one) and the 'Buy Now' button one more click handler.
initEventListeners(containers) ==
    [i \in DOMAIN containers |->
        IF containers[i].attached /\ containers[i].view = "product"
        THEN [containers[i] EXCEPT
                !.moreHandlers = IF containers[i].hasMore THEN @ + 1 ELSE @,
                !.buyHandlers = @ + 1]
        ELSE containers[i]]

\* decorate(block) up to the await: block.textContent = '' takes every
\* earlier container out of the block, and a new one with the loading notice
\* is appended. The fetch of the earlier call is not aborted.
Redecorate(pathname) ==
    /\ Len(productBlock.containers) < MaxInvocations
    /\ LET detached == [i \in DOMAIN productBlock.containers |->
                           [productBlock.containers[i] EXCEPT !.attached = FALSE]]
           sku == productDetails_getSkuFromUrl(pathname)
       IN  productBlock' =
               [productBlock EXCEPT
                   !.containers = Append(detached, LoadingContainer(sku)),
                   !.pending = @ \cup {Len(detached) + 1},
                   !.clicked = "none", !.effects = 0]
    /\ UNCHANGED notProductBlock

\* The fetch of call i settles: the call writes the page into its own
\* container (createKeyFeatures renders the 'More' button only for a product
\* with key features, which of the products here is the fallback) and runs
\* initEventListeners on the block; when building the page throws, its own
\* container shows the error notice and no listener is added.
ProductSettles(i, response) ==
    /\ i \in productBlock.pending
    /\ LET own == productBlock.containers[i]
           p == getProductData(own.sku, response)
           rendered == [productBlock.containers EXCEPT
                           ![i] = [own EXCEPT !.view = "product", !.shown = p,
                                              !.hasMore = (p = getFallbackProductData(own.sku))]]
           failed == [productBlock.containers EXCEPT ![i] = [own EXCEPT !.view = "error"]]
       IN  productBlock' =
               [productBlock EXCEPT
                   !.containers = IF stickyHeaderThrows(p) THEN failed
                                  ELSE initEventListeners(rendered),
                   !.pending = @ \ {i},
                   !.clicked = "none", !.effects = 0]
    /\ UNCHANGED notProductBlock

\* A click on the 'More' button of the page: every click handler of the
\* button toggles 'expanded' on the key features.
MoreClick ==
    \E i \in DOMAIN productBlock.containers :
        LET c == productBlock.containers[i]
        IN  /\ c.attached /\ c.view = "product" /\ c.hasMore
            /\ productBlock' =
                   [productBlock EXCEPT
                       !.containers[i].expanded =
                           IF c.moreHandlers % 2 = 1 THEN ~c.expanded ELSE c.expanded,
                       !.clicked = "more", !.effects = c.moreHandlers]
            /\ UNCHANGED notProductBlock

\* A click on the 'Buy Now' button of the page: every click handler of the
\* button raises an alert.
BuyNowClick ==
    \E i \in DOMAIN productBlock.containers :
        LET c == productBlock.containers[i]
        IN  /\ c.attached /\ c.view = "product"
            /\ productBlock' = [productBlock EXCEPT !.clicked = "buy",
                                                    !.effects = c.buyHandlers]
            /\ UNCHANGED notProductBlock

\* ------------------------------------------------------ header mega menus

\* Bound: nav items of the header that have a mega menu.
MaxMenus == 3

MenuItems == 1 .. MaxMenus

Outside == [at |-> "outside", k |-> 0]

\* The header before decorate: no listener, every mega menu and the product
\* sticky header without inline style, the pointer off the nav items.
NoMega ==
    [setup |-> FALSE, listeners |-> FALSE, sticky |-> FALSE, zIndex |-> "",
     display |-> [k \in MenuItems |-> ""], timer |-> [k \in MenuItems |-> FALSE],
     pointer |-> Outside]

\* navSection 'mouseenter' listener of item k.
navSectionMouseenter(m, k) ==
    IF ~m.listeners THEN m
    ELSE [m EXCEPT !.timer[k] = FALSE, !.display[k] = "block",
                   !.zIndex = IF m.sticky THEN "1" ELSE @]

\* navSection 'mouseleave' listener of item k: arms the 100 ms hide timer.
\* A mouseleave follows a mouseenter of the same item, which cleared the
\* timer, so that an item never has two timers armed.
navSectionMouseleave(m, k) ==
    IF ~m.listeners THEN m ELSE [m EXCEPT !.timer[k] = TRUE]

\* megaMenu 'mouseenter' listener of item k.
megaMenuMouseenter(m, k) ==
    IF ~m.listeners THEN m ELSE [m EXCEPT !.timer[k] = FALSE]

\* megaMenu 'mouseleave' listener of item k.
megaMenuMouseleave(m, k) ==
    IF ~m.listeners THEN m
    ELSE [m EXCEPT !.display[k] = "none", !.zIndex = IF m.sticky THEN "48" ELSE @]

\* decorate(block) of the header: the hover listeners are added when the
\* viewport is desktop-wide at that moment; the product sticky header is
\* looked up once, and is in the document or not yet.
SetupMenus(desktop, sticky) ==
    /\ ~mega.setup
    /\ mega' = [mega EXCEPT !.setup = TRUE, !.listeners = desktop,
                            !.sticky = desktop /\ sticky]
    /\ UNCHANGED notMega

\* The pointer moves from where it is to another place: off the nav items,
\* onto nav item k, or onto the mega menu of item k (a descendant of the
\* item, which can be pointed at only while it is displayed). The browser
\* dispatches mouseleave to the elements left, innermost first, then
\* mouseenter to the elements entered, outermost first.
PointerMove(to) ==
    /\ mega.setup
    /\ to # mega.pointer
    /\ to.at = "menu" => mega.display[to.k] = "block"
    /\ LET from == mega.pointer
           sameItem == from.k = to.k
           l1 == IF from.at = "menu" THEN megaMenuMouseleave(mega, from.k) ELSE mega
           l2 == IF from.at # "outside" /\ ~sameItem
                 THEN navSectionMouseleave(l1, from.k) ELSE l1
           e1 == IF to.at # "outside" /\ ~sameItem
                 THEN navSectionMouseenter(l2, to.k) ELSE l2
           e2 == IF to.at = "menu" THEN megaMenuMouseenter(e1, to.k) ELSE e1
       IN  mega' = [e2 EXCEPT !.pointer = to]
    /\ UNCHANGED notMega

\* The hide timer of item k fires.
HideTimerFires(k) ==
    /\ mega.timer[k]
    /\ mega' = [mega EXCEPT !.timer[k] = FALSE, !.display[k] = "none",
                            !.zIndex = IF mega.sticky THEN "48" ELSE @]
    /\ UNCHANGED notMega

\* -------------------------------------------------------- award pagination

\* Bound: award cards of a block.
MaxAwardCards == 5

\* Card counts of the blocks whose nav bar is followed: none, and the most.
AwardCardCounts == {0, MaxAwardCards}

\* The award block before decorate.
NoPager ==
    [setup |-> FALSE, cards |-> 0, cardsPerPage |-> 4,
     totalPages |-> 0, currentPage |-> 0, startCard |-> 0, endCard |-> 0,
     prevDisabled |-> TRUE, nextDisabled |-> TRUE, slidePercentage |-> 0,
     resizeTimeout |-> FALSE]

getCardsPerPage(innerWidth) ==
    IF innerWidth <= 480 THEN 1
    ELSE IF innerWidth <= 768 THEN 2
    ELSE IF innerWidth <= 1024 THEN 3
    ELSE 4

\* Math.ceil(a / b) for a >= 0 and b > 0.
ceilDiv(a, b) == (a + b - 1) \div b

\* updatePagination: recompute cardsPerPage and totalPages, pull currentPage
\* down to totalPages - 1 when it is not below totalPages, write the range
\* of visible cards and enable or disable the two buttons.
updatePagination(p, innerWidth) ==
    LET cpp == getCardsPerPage(innerWidth)
        total == ceilDiv(p.cards, cpp)
        page == IF p.currentPage >= total THEN total - 1 ELSE p.currentPage
        last == (page + 1) * cpp
    IN  [p EXCEPT !.cardsPerPage = cpp, !.totalPages = total, !.currentPage = page,
                  !.startCard = page * cpp + 1,
                  !.endCard = IF last < p.cards THEN last ELSE p.cards,
                  !.prevDisabled = (page = 0),
                  !.nextDisabled = (page >= total - 1)]

\* slideTo(page): recompute cardsPerPage and totalPages, return when the page
\* is out of range, else move the track and update the pagination.
slideTo(p, innerWidth, page) ==
    LET cpp == getCardsPerPage(innerWidth)
        total == ceilDiv(p.cards, cpp)
        q == [p EXCEPT !.cardsPerPage = cpp, !.totalPages = total]
    IN  IF page < 0 \/ page >= total THEN q
        ELSE updatePagination([q EXCEPT !.currentPage = page,
                                        !.slidePercentage = (page * 100 * cpp) \div cpp],
                              innerWidth)

\* decorate(block) with n rows that make a card, on a page of the given
\* width, scroll position and layout: the nav bar is created and set up by
\* setupScrollFixedPosition, then the carousel and its pagination are built.
DecorateAward(n, innerWidth, scrollY, offset) ==
    /\ ~nav.setup
    /\ ~pager.setup
    /\ win' = [innerWidth |-> innerWidth, scrollY |-> scrollY, naturalOffset |-> offset]
    /\ nav' = setupScrollFixedPosition
    /\ pager' = updatePagination(
                    [NoPager EXCEPT !.setup = TRUE, !.cards = n,
                                    !.cardsPerPage = getCardsPerPage(innerWidth),
                                    !.totalPages = ceilDiv(n, getCardsPerPage(innerWidth))],
                    innerWidth)
    /\ UNCHANGED notAward

PaginationPrevClick ==
    /\ pager.setup /\ ~pager.prevDisabled
    /\ pager' = slideTo(pager, win.innerWidth, pager.currentPage - 1)
    /\ UNCHANGED notPager

PaginationNextClick ==
    /\ pager.setup /\ ~pager.nextDisabled
    /\ pager' = slideTo(pager, win.innerWidth, pager.currentPage + 1)
    /\ UNCHANGED notPager

\* The pagination's resize timer fires: updatePagination(), then slideTo(0).
\* The nav's timer of the same delay is started before it by every resize
\* event, so it has fired by then.
PagerResizeTimeout ==
    /\ pager.resizeTimeout
    /\ ~nav.resizeTimeout
    /\ pager' = slideTo(updatePagination([pager EXCEPT !.resizeTimeout = FALSE],
                                         win.innerWidth),
                        win.innerWidth, 0)
    /\ UNCHANGED notPager

\* ---------------------------------------------- header menu and sections

\* Bound: top-level nav sections of the header.
MaxSections == 3

Sections == 1 .. MaxSections

\* The authored nav: every third section is a link without a list, the
\* others hold a list (class 'nav-drop'); the sections whose link text is in
\* megaMenuItems get a mega menu, here those with an even number.
isNavDrop(k) == k % 3 # 0

hasMegaMenu(k) == k % 2 = 0

\* Where the focus is: outside the nav, on an element of the nav that is not
\* a section (the hamburger button, a link), or on section k.
FocusOutside == 0

FocusInNav == -1

\* The header before decorate.
NoHeader ==
    [setup |-> FALSE, desktop |-> TRUE, navExpanded |-> FALSE, overflowY |-> "",
     expanded |-> [k \in Sections |-> FALSE],
     tabindex |-> [k \in Sections |-> FALSE],
     keydown |-> [k \in Sections |-> FALSE],
     escape |-> FALSE, focusout |-> FALSE, focus |-> FocusOutside]

\* toggleAllNavSections(sections, expanded): aria-expanded of every section.
toggleAllNavSections(h, expanded) ==
    [h EXCEPT !.expanded = [k \in Sections |-> expanded]]

\* A plausible slip in toggleMenu: the Escape and focusout listeners are
\* added on every call and never removed.
toggleMenu_alwaysListens(h, forceExpanded) ==
    LET expanded == IF forceExpanded # "null" THEN forceExpanded = "false"
                    ELSE h.navExpanded
        a == toggleAllNavSections(
                 [h EXCEPT !.overflowY = IF expanded \/ h.desktop THEN "" ELSE "hidden",
                           !.navExpanded = ~expanded],
                 ~(expanded \/ h.desktop))
        b == IF h.desktop
             THEN [a EXCEPT !.tabindex = [k \in Sections |-> isNavDrop(k)]]
             ELSE [a EXCEPT !.tabindex = [k \in Sections |-> FALSE]]
    IN  [b EXCEPT !.escape = TRUE, !.focusout = TRUE]

\* toggleMenu(nav, navSections, forceExpanded): 'expanded' is the state the
\* menu leaves. Body overflow, the nav's aria-expanded, every section's
\* aria-expanded, the nav drops' tabindex (with their focus listener), and
\* the Escape and focusout listeners.
toggleMenu(h, forceExpanded) ==
    LET expanded == IF forceExpanded # "null" THEN forceExpanded = "false"
                    ELSE h.navExpanded
        a == toggleAllNavSections(
                 [h EXCEPT !.overflowY = IF expanded \/ h.desktop THEN "" ELSE "hidden",
                           !.navExpanded = ~expanded],
                 ~(expanded \/ h.desktop))
        b == IF h.desktop
             THEN [a EXCEPT !.tabindex = [k \in Sections |-> isNavDrop(k)]]
             ELSE [a EXCEPT !.tabindex = [k \in Sections |-> FALSE]]
    IN  IF ~expanded \/ h.desktop
        THEN [b EXCEPT !.escape = TRUE, !.focusout = TRUE]
        ELSE [b EXCEPT !.escape = FALSE, !.focusout = FALSE]

\* element.focus(): the focus moves to section k when it can take it (it has
\* a tabindex), and its focus listener (focusNavSection) adds openOnKeydown.
focusSection(h, k) ==
    IF h.tabindex[k] THEN [h EXCEPT !.focus = k, !.keydown[k] = TRUE] ELSE h

\* closeOnEscape for an Escape key: on desktop with a section expanded, all
\* sections collapse and the first expanded one is focused; on mobile the
\* menu is toggled and the hamburger button focused.
closeOnEscape(h) ==
    LET open == {k \in Sections : h.expanded[k]}
    IN  IF open # {} /\ h.desktop
        THEN focusSection(toggleAllNavSections(h, FALSE),
                          CHOOSE k \in open : \A j \in open : k <= j)
        ELSE IF ~h.desktop
        THEN [toggleMenu(h, "null") EXCEPT !.focus = FocusInNav]
        ELSE h

\* closeOnFocusLost for a focusout whose relatedTarget is outside the nav.
closeOnFocusLost(h) ==
    IF (\E k \in Sections : h.expanded[k]) /\ h.desktop
    THEN toggleAllNavSections(h, FALSE)
    ELSE IF ~h.desktop THEN toggleMenu(h, "false")
    ELSE h

\* openOnKeydown for Enter or Space: acts when the focused element's class
\* is exactly 'nav-drop' (a drop without a mega menu).
openOnKeydown(h) ==
    LET k == h.focus
    IN  IF k \in Sections /\ isNavDrop(k) /\ ~hasMegaMenu(k)
        THEN [toggleAllNavSections(h, FALSE) EXCEPT !.expanded[k] = ~h.expanded[k]]
        ELSE h

\* A plausible slip in the click listener: the other sections stay as they
\* are.
sectionClick_noCollapse(h, k) ==
    IF h.desktop /\ ~hasMegaMenu(k)
    THEN [h EXCEPT !.expanded[k] = ~h.expanded[k]]
    ELSE h

\* The click listener of section k.
sectionClick(h, k) ==
    IF h.desktop /\ ~hasMegaMenu(k)
    THEN [toggleAllNavSections(h, FALSE) EXCEPT !.expanded[k] = ~h.expanded[k]]
    ELSE h

\* The window's keydown listeners for an Escape key.
dispatchEscape(h) == IF h.escape THEN closeOnEscape(h) ELSE h

\* decorate(block): the nav starts with aria-expanded 'false' and toggleMenu
\* runs with the viewport's width class.
DecorateHeader(desktop) ==
    /\ ~header.setup
    /\ header' = toggleMenu([NoHeader EXCEPT !.setup = TRUE, !.desktop = desktop],
                            IF desktop THEN "true" ELSE "false")
    /\ UNCHANGED notHeader

HamburgerClick ==
    /\ header.setup
    /\ header' = toggleMenu(header, "null")
    /\ UNCHANGED notHeader

\* isDesktop 'change' listener: the viewport crosses 900px.
BreakpointChange ==
    /\ header.setup
    /\ header' = toggleMenu([header EXCEPT !.desktop = ~header.desktop],
                            IF ~header.desktop THEN "true" ELSE "false")
    /\ UNCHANGED notHeader

\* An Escape key press.
EscapePress ==
    /\ header.setup
    /\ header' = dispatchEscape(header)
    /\ UNCHANGED notHeader

\* An Enter or Space key press with the focus on a section that has the
\* openOnKeydown listener.
EnterOrSpacePress ==
    /\ header.focus \in Sections
    /\ header.keydown[header.focus]
    /\ header' = openOnKeydown(header)
    /\ UNCHANGED notHeader

\* The focus moves: a focusout is dispatched when it leaves an element of
\* the nav (closeOnFocusLost acts when the focus goes outside the nav), then
\* a focus event when it lands on a section.
MoveFocus(to) ==
    /\ header.setup
    /\ to # header.focus
    /\ to \in Sections => header.tabindex[to]
    /\ LET a == IF header.focus # FocusOutside /\ to = FocusOutside /\ header.focusout
                THEN closeOnFocusLost(header) ELSE header
           b == [a EXCEPT !.focus = to]
       IN  header' = IF to \in Sections THEN focusSection(b, to) ELSE b
    /\ UNCHANGED notHeader

SectionClick(k) ==
    /\ header.setup
    /\ header' = sectionClick(header, k)
    /\ UNCHANGED notHeader

\* The page before any block is decorated.
Init ==
    /\ carousels = << >>
    /\ keydownListeners = << >>
    /\ intervals = {}
    /\ cards = << >>
    /\ modals = [b \in ModalBlocks |-> NoModal]
    /\ modalListeners = << >>
    /\ bodyOverflow = ""
    /\ nav = NoNav
    /\ win = [innerWidth |-> 900, scrollY |-> 0, naturalOffset |-> 400]
    /\ rows = << >>
    /\ parsed = NotParsed
    /\ keySpec = NoKeySpec
    /\ product = NoProduct
    /\ header = NoHeader
    /\ pager = NoPager
    /\ mega = NoMega
    /\ productBlock = [containers |-> << >>, pending |-> {}, clicked |-> "none", effects |-> 0]

\* One carousel on the page, every event it listens to.
NextCarousel ==
    \/ \E b \in CarouselBlocks, n \in 2 .. MaxSlides, a \in BOOLEAN : DecorateOnce(b, n, a)
    \/ \E i \in Instances : NextClick(i)
    \/ \E i \in Instances : PrevClick(i)
    \/ \E i \in Instances, d \in 0 .. (MaxSlides - 1) : DotClick(i, d)
    \/ \E i \in Instances : PlayPauseClick(i)
    \/ \E k \in Keys : KeyDown(k)
    \/ \E i \in Instances, x \in TouchXs : TouchStart(i, x)
    \/ \E i \in Instances, x \in TouchXs : TouchEnd(i, x)
    \/ \E t \in intervals : AutoplayTick(t)

SpecCarousel == Init /\ [][NextCarousel]_vars

\* Several decorations on one page (two blocks, or one block decorated again).
NextPage ==
    \/ \E b \in CarouselBlocks, n \in 2 .. MaxSlides, a \in BOOLEAN : Decorate(b, n, a)
    \/ \E i \in Instances : NextClick(i)
    \/ \E i \in Instances : PrevClick(i)
    \/ \E i \in Instances, d \in 0 .. (MaxSlides - 1) : DotClick(i, d)
    \/ \E i \in Instances : PlayPauseClick(i)
    \/ \E k \in Keys : KeyDown(k)
    \/ \E t \in intervals : AutoplayTick(t)

SpecPage == Init /\ [][NextPage]_vars

SpecMedia == Init /\ [][NextMedia]_vars

SpecModal == Init /\ [][NextModal]_vars

NextNav ==
    \/ \E n \in AwardCardCounts, w \in Widths, y \in ScrollYs, o \in NaturalOffsets :
           DecorateAward(n, w, y, o)
    \/ \E y \in ScrollYs : Scroll(y)
    \/ AnimationFrame
    \/ \E w \in Widths, o \in NaturalOffsets : Resize(w, o)
    \/ ResizeTimeout
    \/ PagerResizeTimeout
    \/ InitialCheck

SpecNav == Init /\ [][NextNav]_vars

\* A block table is authored row by row, then decorated by one of the parsers.
NextParse ==
    \/ \E r \in AuthoredRows : AuthorRow(r)
    \/ ParseCarousel
    \/ ParseOverlay
    \/ ParseBlockImage

SpecParse == Init /\ [][NextParse]_vars

NextKeySpec ==
    \/ \E u \in BOOLEAN : KeySpecDecorate(u)
    \/ \E r \in Responses(SpecObjects, MaxSpecs) : KeySpecFetchSettles(r)

SpecKeySpec == Init /\ [][NextKeySpec]_vars

NextProduct ==
    \/ \E pathname \in Paths : ProductDecorate(pathname)
    \/ \E r \in Responses(ApiProducts, MaxProducts) : ProductFetchSettles(r)

SpecProduct == Init /\ [][NextProduct]_vars

\* The product-details block decorated more than once, its fetches settling
\* in any order, and clicks on the controls of the page.
NextRedecorate ==
    \/ \E pathname \in {<<"products", "oled55">>, <<"products", "qned65">>} :
           Redecorate(pathname)
    \/ \E i \in 1 .. MaxInvocations, r \in Responses(ApiProducts, MaxProducts) :
           ProductSettles(i, r)
    \/ MoreClick
    \/ BuyNowClick

SpecRedecorate == Init /\ [][NextRedecorate]_vars

\* The header's mega menus under the pointer.
NextMega ==
    \/ \E desktop \in BOOLEAN, sticky \in BOOLEAN : SetupMenus(desktop, sticky)
    \/ \E to \in {Outside} \cup [at : {"item", "menu"}, k : MenuItems] : PointerMove(to)
    \/ \E k \in MenuItems : HideTimerFires(k)

SpecMega == Init /\ [][NextMega]_vars

\* The award block's pagination: clicks on its buttons and window resizes
\* across the widths at which the number of cards per page changes.
NextPager ==
    \/ \E n \in 0 .. MaxAwardCards, w \in PagerWidths :
           \E y \in ScrollYs, o \in NaturalOffsets : DecorateAward(n, w, y, o)
    \/ PaginationPrevClick
    \/ PaginationNextClick
    \/ \E w \in PagerWidths : Resize(w, win.naturalOffset)
    \/ InitialCheck
    \/ ResizeTimeout
    \/ PagerResizeTimeout

SpecPager == Init /\ [][NextPager]_vars

\* The header's menu and sections under clicks, keys, focus moves and
\* viewport changes.
NextHeader ==
    \/ \E desktop \in BOOLEAN : DecorateHeader(desktop)
    \/ HamburgerClick
    \/ BreakpointChange
    \/ EscapePress
    \/ EnterOrSpacePress
    \/ \E to \in {FocusOutside, FocusInNav} \cup Sections : MoveFocus(to)
    \/ \E k \in Sections : SectionClick(k)

SpecHeader == Init /\ [][NextHeader]_vars

\* ================================================= claims about the carousel

TimersOf(i) == {t \in intervals : t.owner = i}

OneActive(c) ==
    /\ c.currentSlide \in SlideIndexes(c)
    /\ c.slideActive = {c.currentSlide}
    /\ c.dotActive = {c.currentSlide}

\* C1: a carousel starts at slide 0, and after any sequence of next, prev,
\* dot, arrow-key, swipe and autoplay-tick events currentSlide is in 0..N-1
\* and exactly the slide and the dot at currentSlide carry the active class.
C1_OneActiveSlide ==
    /\ [](\A i \in Instances : OneActive(carousels[i]))
    /\ [][\A i \in 1 .. Len(carousels') :
            i > Len(carousels) => carousels'[i].currentSlide = 0]_vars

C1_Witness ==
    \E i \in Instances :
        /\ carousels[i].slidesCount = 3
        /\ carousels[i].currentSlide = 2
        /\ carousels[i].isPlaying
        /\ carousels[i].touchEndX = 101

RECURSIVE nextTimes(_, _)
nextTimes(c, k) == IF k = 0 THEN c ELSE nextTimes(nextSlide(c), k - 1)

\* C2: from slide 0, N calls of next return to slide 0 and k calls with
\* 0 < k < N stand on slide k; prev from slide 0 goes to slide N-1.
C2_NextWrapsAfterN ==
    \A i \in Instances :
        carousels[i].currentSlide = 0 =>
            /\ nextTimes(carousels[i], carousels[i].slidesCount).currentSlide = 0
            /\ \A k \in 1 .. (carousels[i].slidesCount - 1) :
                   nextTimes(carousels[i], k).currentSlide = k
            /\ prevSlide(carousels[i]).currentSlide = carousels[i].slidesCount - 1

C2_Witness ==
    \E i \in Instances :
        /\ carousels[i].slidesCount = 4
        /\ carousels[i].currentSlide = 0
        /\ carousels[i].touchStartX = 101
        /\ carousels[i].isPlaying

\* C3: the interval timer is armed exactly when isPlaying is true, the
\* closure holds its handle, and at most one timer is armed per carousel.
C3_TimerIffPlaying ==
    \A i \in Instances :
        /\ Cardinality(TimersOf(i)) <= 1
        /\ (TimersOf(i) # {}) <=> carousels[i].isPlaying
        /\ \A t \in TimersOf(i) : carousels[i].autoplayInterval = t.id

C3_Witness ==
    \E i \in Instances :
        /\ ~carousels[i].isPlaying
        /\ carousels[i].currentSlide = 1
        /\ TimersOf(i) = {}
        /\ carousels[i].touchEndX = 50

Navigation(i) ==
    \/ NextClick(i)
    \/ PrevClick(i)
    \/ \E d \in 0 .. (MaxSlides - 1) : DotClick(i, d)
    \/ \E k \in Keys : KeyDown(k)
    \/ \E x \in TouchXs : TouchStart(i, x)
    \/ \E x \in TouchXs : TouchEnd(i, x)

\* C4: a play/pause toggle leaves currentSlide unchanged; next, prev, dot,
\* arrow-key and swipe events leave isPlaying and the timer unchanged.
C4_PlayPauseOrthogonal ==
    [][\A i \in Instances :
          /\ PlayPauseClick(i) =>
                carousels'[i].currentSlide = carousels[i].currentSlide
          /\ Navigation(i) =>
                /\ carousels'[i].isPlaying = carousels[i].isPlaying
                /\ carousels'[i].autoplayInterval = carousels[i].autoplayInterval
                /\ intervals' = intervals]_vars

C4_Witness ==
    \E i \in Instances :
        /\ carousels[i].isPlaying
        /\ TimersOf(i) # {}
        /\ carousels[i].currentSlide = carousels[i].slidesCount - 1
        /\ carousels[i].touchStartX = 50

\* C5: the arrow-key listener is scoped to its carousel or removed with it:
\* one key press moves at most one carousel, and never one whose block was
\* cleared.
C5_KeyListenerScoped ==
    [][\A k \in Keys : KeyDown(k) =>
          /\ Cardinality({i \in Instances :
                 carousels'[i].currentSlide # carousels[i].currentSlide}) <= 1
          /\ \A i \in Instances :
                 ~carousels[i].attached =>
                     carousels'[i].currentSlide = carousels[i].currentSlide]_vars

ListenersOf(block) ==
    {n \in 1 .. Len(keydownListeners) : carousels[keydownListeners[n]].block = block}

\* C6: however often a block is decorated, the document holds exactly one
\* keydown listener for it.
C6_ListenerOncePerBlock ==
    \A b \in CarouselBlocks :
        (\E i \in Instances : carousels[i].block = b) =>
            Cardinality(ListenersOf(b)) = 1

\* ============================================ claims about the media toggle

PlayVisible(c) == c.playBtnDisplay # "none"

PauseVisible(c) == c.pauseBtnDisplay # "none"

IdleView(c) ==
    /\ c.videoPaused
    /\ c.imageDisplay # "none"
    /\ PlayVisible(c) /\ ~PauseVisible(c)

PlayingView(c) ==
    /\ ~c.videoPaused
    /\ c.hasImage => c.imageDisplay = "none"
    /\ c.videoDisplay = "block"
    /\ PauseVisible(c) /\ ~PlayVisible(c)

\* C7: a card with a video is Idle (video paused, poster image shown, play
\* visible, pause hidden) or Playing (poster hidden, video shown and
\* playing, pause visible, play hidden): pause and 'ended' lead back to
\* Idle, and exactly one of the two buttons is visible.
C7_IdleOrPlaying ==
    \A i \in CardIds :
        cards[i].hasVideo =>
            /\ IdleView(cards[i]) \/ PlayingView(cards[i])
            /\ PlayVisible(cards[i]) # PauseVisible(cards[i])

\* C8: a play, pause or ended event on card i leaves every other card as it
\* was (two cards can play at once: C8_Witness).
C8_CardsIndependent ==
    [][\A i \in CardIds :
          (PlayClick(i) \/ PauseClick(i) \/ Ended(i)) =>
              \A j \in CardIds : j # i => cards'[j] = cards[j]]_vars

C8_Witness ==
    \E i, j \in CardIds :
        /\ i # j
        /\ PlayingView(cards[i])
        /\ PlayingView(cards[j])

\* ============================================== claims about the video modal

ModalConsistent(m) == m.active <=> m.src # ""

\* C9: a modal starts Closed with an empty iframe source; it is Open exactly
\* when the source is non-empty; overlay click, close button and Escape
\* while Open lead to Closed with the source cleared; Escape while Closed
\* changes nothing.
C9_ModalOpenIffSource ==
    /\ [](\A b \in ModalBlocks : ModalConsistent(modals[b]))
    /\ [][\A b \in ModalBlocks :
            /\ ~modals[b].decorated /\ modals'[b].decorated =>
                  ~modals'[b].active /\ modals'[b].src = ""
            /\ OverlayClick(b) \/ CloseClick(b) =>
                  ~modals'[b].active /\ modals'[b].src = ""
            /\ ModalKeyDown("Escape") /\ modals[b].decorated =>
                  /\ ~modals'[b].active /\ modals'[b].src = ""
                  /\ ~modals[b].active => modals'[b] = modals[b]]_vars

C9_Witness ==
    \E a, b \in ModalBlocks :
        /\ modals[a].active
        /\ modals[a].src = "https://www.youtube.com/embed/xyz?autoplay=1&rel=0"
        /\ modals[b].decorated /\ ~modals[b].active
        /\ bodyOverflow = ""

\* ================================================ claims about the award nav

UpdateRuns ==
    \/ AnimationFrame
    \/ ResizeTimeout
    \/ InitialCheck /\ win.scrollY > 0 /\ win.innerWidth >= DesktopMinWidth

ShouldBeFixed(n, w) ==
    /\ w.innerWidth >= DesktopMinWidth
    /\ w.scrollY >= n.originalOffset - FixedTopPosition
    /\ n.originalOffset - FixedTopPosition > 0

\* C10: right after every run of updateNavPosition the nav is fixed exactly
\* when the window is at least 900 px wide, scrollPosition >= originalOffset
\* - 200 and originalOffset - 200 > 0; below 900 px it is not fixed.
C10_FixedIffPastThreshold ==
    [][UpdateRuns =>
          /\ (nav'.position = "fixed") <=> ShouldBeFixed(nav', win')
          /\ nav'.classFixed <=> ShouldBeFixed(nav', win')]_vars

C10_Witness ==
    /\ nav.isFixed /\ nav.position = "fixed"
    /\ nav.originalOffset = 400
    /\ win.scrollY = 200
    /\ win.innerWidth = 900

\* The offset the next desktop update works with: the cached one, or a fresh
\* measurement when nothing is cached.
OffsetInUse == IF nav.originalOffset # Null THEN nav.originalOffset
               ELSE measureOffset(nav, win)

Quiescent ==
    /\ nav.setup
    /\ nav.rafPending = 0 /\ ~nav.resizeTimeout /\ ~nav.initialCheck

\* C11: at most one animation-frame callback is pending (so the scroll
\* events between two frames cause one updateNavPosition run); a scroll
\* event with no frame pending requests one; and once no callback is left
\* pending the nav stands where the current scroll position puts it.
C11_ScrollThrottled ==
    /\ [](/\ nav.rafPending \in {0, 1}
          /\ nav.scrollTicking <=> nav.rafPending = 1
          /\ Quiescent =>
                ((nav.position = "fixed") <=>
                    /\ win.innerWidth >= DesktopMinWidth
                    /\ win.scrollY >= OffsetInUse - FixedTopPosition
                    /\ OffsetInUse - FixedTopPosition > 0))
    /\ [][/\ (\E y \in ScrollYs : Scroll(y)) => nav'.rafPending = 1
          /\ AnimationFrame => nav'.rafPending = 0 /\ ~nav'.scrollTicking]_vars

C11_Witness ==
    /\ nav.rafPending = 1
    /\ nav.isFixed
    /\ nav.originalOffset = 400
    /\ win.scrollY = 100
    /\ win.innerWidth = 900

\* C12 as claimed: once the debounced resize handler has run the nav is
\* unfixed (and the offset is measured again only by a later update).
C12_UnfixedAfterResize ==
    [][ResizeTimeout => nav'.position # "fixed" /\ ~nav'.isFixed]_vars

\* ================================================ claims about the parsers

\* The parser of the decorated block, applied to any row set.
ParseAs(block, rs) ==
    CASE block = "carousel" -> parseDocumentRows(rs)
      [] block = "image-cta-overlay" -> imageCtaOverlay_parseDocumentRows(rs)
      [] OTHER -> blockImage_parseDocumentRows(rs)

Without(rs, p) == SubSeq(rs, 1, p - 1) \o SubSeq(rs, p + 1, Len(rs))

\* The numbered field names each parser recognises.
FieldNames(block) ==
    CASE block = "carousel" -> {"image", "headline", "bodycopy", "body", "alttag", "alt"}
      [] block = "image-cta-overlay" ->
            {"image", "thumbnailimage", "video", "animationvideo", "headline",
             "bodycopy", "body", "alttag", "alt", "ctaurl", "cta", "ctatext"}
      [] OTHER -> BlockImageProps

\* A recognised field name with index 0, or with an index above the number
\* of items the block holds (the carousel has no such number).
OutOfRange(row, block) ==
    /\ Len(row) >= 2
    /\ labelMatch(normalizeLabel(row[1])).matched
    /\ Join(labelMatch(normalizeLabel(row[1])).prefix) \in FieldNames(block)
    /\ \/ labelMatch(normalizeLabel(row[1])).index < 0
       \/ block = "image-cta-overlay" /\ labelMatch(normalizeLabel(row[1])).index >= MaxCards
       \/ block = "block-image" /\ labelMatch(normalizeLabel(row[1])).index >= BlockImageColumns

\* C13: a numbered row whose index is 0 or above the block's maximum never
\* makes the parser throw, and the parser returns the items it returns for
\* the row set without that row.
C13_OutOfRangeIgnored ==
    parsed.block # "none" =>
        \A p \in DOMAIN rows :
            OutOfRange(rows[p], parsed.block) =>
                /\ ~parsed.out.threw
                /\ parsed.out.items = ParseAs(parsed.block, Without(rows, p)).items

\* The labels each parser's style switch recognises (image list included).
StyleLabels(block) ==
    CASE block = "carousel" ->
            {"contentalignment", "align", "margintop", "marginbottom", "backgroundcolor",
             "background", "headlinefontstyledesktop", "headlinefontdesktop",
             "headlinefontstylemobile", "headlinefontmobile", "bodyfontstyledesktop",
             "bodyfontdesktop", "bodyfontstylemobile", "bodyfontmobile", "autoplay",
             "autoplaydelay", "images", "image"}
      [] block = "image-cta-overlay" ->
            {"selectblocktype", "blocktype", "mediatypeitems", "mediatype",
             "contentalignment", "align", "margintop", "marginbottom", "backgroundcolor",
             "background", "headlinefontstyledesktop", "headlinefontdesktop",
             "headlinefontstylemobile", "headlinefontmobile", "bodyfontstyledesktop",
             "bodyfontdesktop", "bodyfontstylemobile", "bodyfontmobile"}
      [] OTHER -> BlockImageStyleLabels

\* Neither a style label nor a numbered field of the block.
Unrecognised(row, block) ==
    /\ Len(row) >= 2
    /\ Join(normalizeLabel(row[1])) \notin StyleLabels(block)
    /\ ~(/\ labelMatch(normalizeLabel(row[1])).matched
         /\ Join(labelMatch(normalizeLabel(row[1])).prefix) \in FieldNames(block))

\* C14: a row with an unrecognised label (one that ends in digits included)
\* changes nothing: the parser returns the styles and the items it returns
\* for the row set without that row.
C14_UnrecognisedIgnored ==
    parsed.block # "none" =>
        \A p \in DOMAIN rows :
            Unrecognised(rows[p], parsed.block) =>
                parsed.out = ParseAs(parsed.block, Without(rows, p))

NonEmptySlide(slide) ==
    slide.headline # "" \/ slide.bodyCopy # "" \/ slide.image # "" \/ slide.altTag # ""

\* C15: every slide the carousel parser returns has at least one non-empty
\* field (an index is materialised only by a field with content), and the
\* numbered fields of one index end up in the one slide of that index.
C15_SlidesMaterialised ==
    parsed.block = "carousel" /\ ~parsed.out.threw =>
        /\ \A i \in DOMAIN parsed.out.items : NonEmptySlide(parsed.out.items[i])
        /\ \A p \in DOMAIN rows :
              LET m == labelMatch(normalizeLabel(rows[p][1]))
              IN  /\ m.matched /\ m.index >= 0
                  /\ Join(m.prefix) \in {"headline", "bodycopy"}
                  /\ \A q \in DOMAIN rows : q > p => rows[q][1] # rows[p][1]
                  => /\ m.index + 1 \in DOMAIN parsed.out.items
                     /\ IF Join(m.prefix) = "headline"
                        THEN parsed.out.items[m.index + 1].headline = Join(rawValueOf(rows[p][2]))
                        ELSE parsed.out.items[m.index + 1].bodyCopy = Join(rawValueOf(rows[p][2]))

\* The extraction order as stated: the anchor's href, else the image's src,
\* else the text when it starts with 'http' or '/', else nothing.
StatedUrl(text, html) ==
    IF attrValues(html, AOpen) # << >> THEN attrValues(html, AOpen)[1]
    ELSE IF attrValues(html, ImgOpen) # << >> THEN attrValues(html, ImgOpen)[1]
    ELSE IF text # << >> /\ Head(text) \in {"http", "/"} THEN Join(text)
    ELSE ""

ImageRow(row) ==
    /\ Len(row) >= 2
    /\ labelMatch(normalizeLabel(row[1])).matched
    /\ Join(labelMatch(normalizeLabel(row[1])).prefix) = "image"

\* C16: on the value of every authored image row, the extractImageUrl of
\* every block returns the URL of the stated order.
C16_ExtractionOrder ==
    \A p \in DOMAIN rows :
        ImageRow(rows[p]) =>
            LET text == rawValueOf(rows[p][2])
                html == trim(rows[p][2])
            IN  /\ extractImageUrl(text, html) = StatedUrl(text, html)
                /\ blockImage_extractImageUrl(text, html) = StatedUrl(text, html)
                /\ heroImage_extractImageUrl(text, html) = StatedUrl(text, html)

ImageListRow(row, block) ==
    /\ Len(row) >= 2
    /\ Join(normalizeLabel(row[1])) \in
          (IF block = "carousel" THEN {"images", "image"}
           ELSE {"blockimage", "image", "images"})

Numbered(row) == Len(row) >= 2 /\ labelMatch(normalizeLabel(row[1])).matched

\* The row set has one image-list row and no numbered row, and the entries
\* of the list are URLs (they start with 'http' or '/').
FanOutCase(block, p) ==
    /\ ImageListRow(rows[p], block)
    /\ \A q \in DOMAIN rows :
          /\ ~Numbered(rows[q])
          /\ q # p => ~ImageListRow(rows[q], block)
    /\ LET urls == imgUrls(rawValueOf(rows[p][2]))
       IN  \A i \in DOMAIN urls : Head(urls[i]) \in {"http", "/"}

\* C17: one image-list row of k URLs and no numbered rows give exactly k
\* items in the carousel and the block-image parser, item i holding the
\* i-th URL of the list.
C17_ImageFanOut ==
    \A p \in DOMAIN rows :
        parsed.block \in {"carousel", "block-image"} /\ FanOutCase(parsed.block, p) =>
            LET urls == imgUrls(rawValueOf(rows[p][2]))
            IN  /\ ~parsed.out.threw
                /\ Len(parsed.out.items) = Len(urls)
                /\ \A i \in DOMAIN urls : parsed.out.items[i].image = Join(urls[i])

\* A style row whose value is empty or none of the values of its axis.
UnrecognisedValue(row) ==
    /\ Len(row) >= 2
    /\ \/ /\ Join(normalizeLabel(row[1])) \in {"margintop", "marginbottom"}
          /\ valueOf(row[2]) \notin {"yes", "true", "no", "false"}
       \/ /\ Join(normalizeLabel(row[1])) = "align"
          /\ valueOf(row[2]) \notin {"left", "center", "right"}

\* C18: a style row with an empty or unrecognised value leaves the styles
\* as they are without the row (the default when no other row sets the axis).
C18_StyleDefaults ==
    parsed.block # "none" /\ ~parsed.out.threw =>
        \A p \in DOMAIN rows :
            UnrecognisedValue(rows[p]) =>
                parsed.out.styles = ParseAs(parsed.block, Without(rows, p)).styles

\* ================================================= claims about key-spec

\* The fetch outcomes that count as a failure.
KeySpecFailure(response) ==
    \/ response.rejected
    \/ response.status < 200 \/ response.status > 299
    \/ response.body.kind \in {"malformed", "object"}
    \/ response.body.data = << >>

\* Row i shows the two items of spec i.
ShowsSpec(row, spec) ==
    /\ row.left = <<spec.leftLabel, spec.leftValue>>
    /\ row.right = <<spec.rightLabel, spec.rightValue>>

NoUsableProduct(sku, response) ==
    \/ response.rejected
    \/ response.status < 200 \/ response.status > 299
    \/ response.body.kind # "array"
    \/ \A i \in DOMAIN response.body.data :
          toUpperCase(response.body.data[i].sku) # sku
    \/ stickyHeaderThrows(getProductData(sku, response))

\* C20: whatever the fetch ends in, the block leaves the loading state for
\* the rendered state and never for the error notice, and it shows the
\* fallback product when the response holds no usable product.
C20_NeverErrorState ==
    /\ product.phase # "error"
    /\ product.phase = "rendered" /\ NoUsableProduct(product.sku, product.response)
          => product.shown = getFallbackProductData(product.sku)

\* C21: on every path the header and the product-details block read the
\* same SKU: the uppercased segment after a 'products' segment when there
\* is one, otherwise the uppercased last segment.
C21_SameSku ==
    product.phase # "initial" =>
        /\ product.sku = header_getSkuFromUrl(product.pathname)
        /\ LET segments == SelectSeq(product.pathname, LAMBDA t : t # "")
           IN  \A i \in DOMAIN segments :
                 /\ segments[i] = "products" /\ i < Len(segments)
                 /\ \A j \in 1 .. (i - 1) : segments[j] # "products"
                 => product.sku = toUpperCase(segments[i + 1])

\* ============================================ claims about markup synthesis

Has(elements, class) == \E i \in DOMAIN elements : elements[i].class = class

\* C22: a container is in the markup of a slide or a card only when one of
\* the fields behind it is non-empty: the content container needs a
\* headline, a body or a CTA, the image or media container an image or a video.
C22_NoEmptyContainers ==
    \A i \in DOMAIN parsed.markup :
        LET item == parsed.out.items[i]
            elements == parsed.markup[i]
        IN  /\ Has(elements, "carousel-slide-content")
                  => item.headline # "" \/ item.bodyCopy # ""
            /\ Has(elements, "carousel-slide-image") => item.image # ""
            /\ Has(elements, "image-cta-overlay-media")
                  => item.image # "" \/ item.video # ""
            /\ Has(elements, "image-cta-overlay-content")
                  => item.headline # "" \/ item.bodyCopy # ""
                     \/ (item.ctaUrl # "" /\ item.ctaText # "")

\* ------------------------------- claims about a block decorated repeatedly

\* C23: when product-details decorate is invoked twice on the same block and
\* the first response arrives after the second call has rendered, every
\* control of the page has exactly one click handler, so that one click on
\* 'More' flips the expanded state exactly once and one click on 'Buy Now'
\* raises exactly one alert.
C23_OneHandlerPerControl ==
    /\ \A i \in DOMAIN productBlock.containers :
           LET c == productBlock.containers[i]
           IN  (c.attached /\ c.view = "product") =>
                   /\ c.buyHandlers = 1
                   /\ c.hasMore => c.moreHandlers = 1
    /\ productBlock.clicked # "none" => productBlock.effects = 1

\* ---------------------------------------------- claims about the swipe

\* C24: on touchend with displacement d = touchEndX - touchStartX the carousel
\* moves to the next slide (by exactly one, wrapping) when d < -50, to the
\* previous slide (by exactly one, wrapping) when d > 50, and stays where it
\* is when -50 <= d <= 50; no swipe runs both next and prev.
C24_SwipeThreshold ==
    [][\A i \in Instances, x \in TouchXs :
          TouchEnd(i, x) =>
              LET c == carousels[i]
                  d == x - c.touchStartX
                  n == c.slidesCount
              IN  carousels'[i].currentSlide =
                      IF d < -50 THEN (c.currentSlide + 1) % n
                      ELSE IF d > 50 THEN (c.currentSlide + n - 1) % n
                      ELSE c.currentSlide]_vars

\* A carousel of three slides that a swipe of 51 to the left has taken from
\* the first slide to the second.
C24_Witness ==
    \E i \in Instances :
        /\ carousels[i].slidesCount = 3
        /\ carousels[i].touchStartX = 101
        /\ carousels[i].touchEndX = 50
        /\ carousels[i].currentSlide = 1

\* ------------------------------------------ claims about the mega menus

PointerOver(k) == mega.pointer.at # "outside" /\ mega.pointer.k = k

Displayed(k) == mega.display[k] = "block"

\* C25: with the hover listeners in place and no hide timer pending, the mega
\* menu of an item is displayed while the pointer is over the item or over
\* its mega menu (so also after the pointer moved from the mega menu back
\* onto the item), and is not displayed once the pointer has left both.
C25_MenuFollowsPointer ==
    (mega.listeners /\ \A k \in MenuItems : ~mega.timer[k]) =>
        \A k \in MenuItems : Displayed(k) <=> PointerOver(k)

\* C26: at most one mega menu is displayed at a time, and the product sticky
\* header has z-index '1' whenever some mega menu is displayed.
C26_OneMenuAboveStickyHeader ==
    /\ Cardinality({k \in MenuItems : Displayed(k)}) <= 1
    /\ (mega.sticky /\ \E k \in MenuItems : Displayed(k)) => mega.zIndex = "1"

\* ------------------------------------- claims about the award pagination

\* C27: for any number of cards (zero included) and any sequence of prev
\* clicks, next clicks and resizes, currentPage is never negative; with at
\* least one card currentPage is below totalPages and the range shown
\* satisfies 1 <= startCard <= endCard <= number of cards; a slideTo with a
\* page outside 0..totalPages-1 changes nothing.
C27_PaginationBounds ==
    pager.setup =>
        /\ pager.currentPage >= 0
        /\ pager.cards >= 1 =>
               /\ pager.currentPage < pager.totalPages
               /\ 1 <= pager.startCard
               /\ pager.startCard <= pager.endCard
               /\ pager.endCard <= pager.cards
        /\ ~pager.resizeTimeout =>
               \A page \in {-1, pager.totalPages, pager.totalPages + 1} :
                   slideTo(pager, win.innerWidth, page) = pager

\* ------------------------------------------ claims about the nav's flag

\* C28: in every state reached by scroll-frame updates, debounced resize
\* firings and the initial check, isFixed is true exactly when the nav has
\* the class 'is-fixed' and position 'fixed'; and while originalOffset is
\* null, isFixed is false.
C28_FlagConsistent ==
    /\ nav.isFixed <=> (nav.classFixed /\ nav.position = "fixed")
    /\ nav.originalOffset = Null => ~nav.isFixed

\* A fixed nav with a resize timer about to fire.
C28_Witness ==
    /\ nav.isFixed
    /\ nav.position = "fixed"
    /\ nav.resizeTimeout

\* ------------------------------------------------ claims about the header

\* C29: at mobile width the body has overflowY 'hidden' exactly when the nav
\* has aria-expanded 'true', the window's Escape handler is registered
\* exactly when the nav is expanded, and an Escape press does not open a
\* closed menu.
C29_MobileMenuConsistent ==
    (header.setup /\ ~header.desktop) =>
        /\ header.overflowY = "hidden" <=> header.navExpanded
        /\ header.escape <=> header.navExpanded
        /\ ~header.navExpanded => ~dispatchEscape(header).navExpanded

\* The mobile menu open after the viewport has been desktop-wide: a section
\* carries the keydown listener only a desktop focus adds.
C29_Witness ==
    /\ header.setup /\ ~header.desktop
    /\ header.navExpanded
    /\ header.overflowY = "hidden"
    /\ \E k \in Sections : header.keydown[k]

\* C30: at desktop width at most one top-level nav section has aria-expanded
\* 'true', and a click on the expanded section collapses it.
C30_OneSectionExpanded ==
    (header.setup /\ header.desktop) =>
        /\ Cardinality({k \in Sections : header.expanded[k]}) <= 1
        /\ \A k \in Sections :
               header.expanded[k] => ~sectionClick(header, k).expanded[k]

\* A section expanded on desktop while the focus is on a link of the nav.
C30_Witness ==
    /\ header.setup /\ header.desktop
    /\ \E k \in Sections : header.expanded[k]
    /\ header.focus = FocusInNav

====
